---- MODULE Spec2Model ----
(***************************************************************************)
(* A model of the smart_excel_kit tools (src/tools/utils.py and the        *)
(* analysis tools built on it): the sheet patcher, the image map           *)
(* extractor, the coordinate resolver and the per-invocation life cycle    *)
(* of the analysis tools.                                                  *)
(*                                                                         *)
(* An .xlsx archive is a sequence of parts, each a name (a path, a         *)
(* sequence of segments) and a body (a record whose "kind" says what the   *)
(* part holds).  Column letters are sequences over 1..26 (A = 1).          *)
(***************************************************************************)
EXTENDS Integers, Sequences, FiniteSets, TLC

VARIABLES
    archive,    \* the parts of the file at temp_file_path, in archive order
    wbView,     \* what openpyxl's load_workbook yields for that file
    sheetNo,    \* the sheet_number argument
    updates,    \* the updates argument of apply_sheet_updates_preserve_images
    ppc,        \* position inside apply_sheet_updates_preserve_images
    tmpFile,    \* the scratch archive made by mkstemp: <<>> when it does not exist
    sheetXml,   \* the local updated_xml of the patcher
    presult,    \* how the patcher ended: "none", "returned" or "raised"
    original,   \* the archive as it was before the patcher ran
    scenario,   \* how the package was built (never read by the program)
    mapBefore,  \* extract_image_map(path) before the patcher ran
    mapAfter,   \* extract_image_map(path) after the patcher returned
    \* --- one invocation of a tool ---
    tool,       \* which tool's _invoke runs
    outputName, \* the output file name parameter
    upload,     \* the uploaded file (file_obj)
    sheetNumber,\* the sheet_number parameter
    inExprs,    \* the input column expression, one entry per comma clause
    outExpr,    \* the output column expression
    tpc,        \* position inside _invoke
    temps,      \* the temporary files that exist: path |-> content
    pathIn,     \* the local path_in
    pathOut,    \* the local path_out
    df,         \* the DataFrame
    wb,         \* the openpyxl workbook, NoWb for None
    isXlsx,     \* the local is_xlsx
    imageMap,   \* the local image_map
    ws,         \* the index of the worksheet ws, 0 for None
    curRow,     \* the loop variable i
    calls,      \* the rows the model was invoked for, in order
    failed,     \* the rows whose model invocation raised
    saveFailed, \* whether wb.save raised in this invocation
    msgs,       \* the messages the invocation has yielded
    exc,        \* the exception that left _invoke, if any
    \* --- one call of a coordinate function ---
    fn,         \* which function is called
    arg,        \* its arguments
    out,        \* what it returned
    cpc,        \* "call" before the call, "done" after it
    \* --- one call of extract_image_map ---
    exIn,       \* the file at the path, its name, its openpyxl view, the sheet
    exOut,      \* whether the call raised, and the map it returned
    epc         \* "call" before the call, "done" after it

pkgVars == <<archive, wbView, sheetNo, updates, ppc, tmpFile, sheetXml,
             presult, original, scenario, mapBefore, mapAfter>>

toolVars == <<tool, outputName, upload, sheetNumber, inExprs, outExpr, tpc, temps, pathIn,
              pathOut, df, wb, isXlsx, imageMap, ws, curRow, calls, failed,
              saveFailed, msgs, exc>>

coordVars == <<fn, arg, out, cpc>>

extractVars == <<exIn, exOut, epc>>

vars == <<pkgVars, toolVars, coordVars, extractVars>>

-----------------------------------------------------------------------------
(* Bounds of the model.                                                    *)

MaxSheet == 2       \* sheet numbers range over 1..MaxSheet
MaxUpdRow == 1      \* data-row indices of updates range over 0..MaxUpdRow
MaxUpdCol == 1      \* column indices of updates range over 0..MaxUpdCol
MaxBatch == 2       \* an update batch holds at most MaxBatch updates

-----------------------------------------------------------------------------
(* Small helpers over sequences.                                           *)

Range(s) == {s[i] : i \in 1..Len(s)}

Last(s) == s[Len(s)]

RECURSIVE SeqsUpTo(_, _)
SeqsUpTo(S, n) ==
    IF n = 0 THEN {<<>>}
    ELSE LET shorter == SeqsUpTo(S, n - 1)
         IN  shorter \cup {Append(s, x) : s \in shorter, x \in S}

InsertAt(s, i, e) == SubSeq(s, 1, i - 1) \o <<e>> \o SubSeq(s, i, Len(s))

-----------------------------------------------------------------------------
(* Column letters: bijective base 26.                                      *)

AlphabetSize == 26

\* _col_to_letter with "divmod(col, 26)" for the quotient: no borrow.
RECURSIVE ColToLetterNoBorrow(_)
ColToLetterNoBorrow(col) ==
    IF col <= 0 THEN <<>>
    ELSE ColToLetterNoBorrow(col \div AlphabetSize)
            \o <<((col - 1) % AlphabetSize) + 1>>

\* ExcelProcessor._col_to_letter: the letters of a 1-based column number.
RECURSIVE ColToLetter(_)
ColToLetter(col) ==
    IF col <= 0 THEN <<>>
    ELSE ColToLetter((col - 1) \div AlphabetSize)
            \o <<((col - 1) % AlphabetSize) + 1>>

\* The decoder loop of parse_range.parse and _cell_ref_to_pd_indices:
\* c_idx = c_idx * 26 + (ord(ch) - ord('A') + 1), before the final "- 1".
RECURSIVE LetterToCol(_)
LetterToCol(letters) ==
    IF letters = <<>> THEN 0
    ELSE LetterToCol(SubSeq(letters, 1, Len(letters) - 1)) * AlphabetSize
            + Last(letters)

\* A cell reference such as "A3": its column letters and its row number.
\* A reference the regex ^([A-Z]+)([0-9]+)$ rejects has no letters.
CellRef(letters, row) == [col |-> letters, row |-> row]
NoRef == CellRef(<<>>, 0)

-----------------------------------------------------------------------------
(* Paths of parts.  posixpath.dirname / basename / join / normpath.        *)

Root == "/"
Up == ".."

Dirname(p) == IF p = <<>> THEN <<>> ELSE SubSeq(p, 1, Len(p) - 1)
Basename(p) == IF p = <<>> THEN "" ELSE Last(p)

\* posixpath.join(base_dir, target): an absolute target replaces the base.
PathJoin(dir, target) ==
    IF target # <<>> /\ target[1] = Root THEN target ELSE dir \o target

\* posixpath.normpath: ".." removes the segment before it; a ".." with
\* nothing before it stays (or is dropped right under the root).
RECURSIVE NormFrom(_, _)
NormFrom(done, rest) ==
    IF rest = <<>> THEN done
    ELSE LET seg == rest[1]
             tail == SubSeq(rest, 2, Len(rest))
         IN  IF seg = Up /\ done # <<>> /\ Last(done) \notin {Up, Root}
                 THEN NormFrom(SubSeq(done, 1, Len(done) - 1), tail)
             ELSE IF seg = Up /\ done # <<>> /\ Last(done) = Root
                 THEN NormFrom(done, tail)
             ELSE NormFrom(Append(done, seg), tail)

Normpath(p) == NormFrom(<<>>, p)

\* ExcelProcessor._resolve_target(base_path, target).  <<>> stands for None.
ResolveTarget(basePath, target) ==
    IF basePath = <<>> \/ target = <<>> THEN <<>>
    ELSE Normpath(PathJoin(Dirname(basePath), target))

\* The file names the code builds with f-strings.
SheetFile(n) ==
    CASE n = 1 -> "sheet1.xml"
      [] n = 2 -> "sheet2.xml"
      [] n = 3 -> "sheet3.xml"
      [] OTHER -> "sheetN.xml"

RelsFile(base) ==
    CASE base = "sheet1.xml" -> "sheet1.xml.rels"
      [] base = "sheet2.xml" -> "sheet2.xml.rels"
      [] base = "sheet3.xml" -> "sheet3.xml.rels"
      [] base = "drawing1.xml" -> "drawing1.xml.rels"
      [] base = "cellimages.xml" -> "cellimages.xml.rels"
      [] OTHER -> "part.rels"

\* sheet_path = f"xl/worksheets/sheet{sheet_number}.xml"
SheetPath(n) == <<"xl", "worksheets", SheetFile(n)>>

\* sheet_rels_path = f"xl/worksheets/_rels/sheet{sheet_number}.xml.rels"
SheetRelsPath(n) == <<"xl", "worksheets", "_rels", RelsFile(SheetFile(n))>>

\* ExcelProcessor._rels_for_part(part_path)
RelsForPart(partPath) ==
    Dirname(partPath) \o <<"_rels", RelsFile(Basename(partPath))>>

-----------------------------------------------------------------------------
(* The sheet XML part and ExcelProcessor._update_sheet_xml.                *)
(*                                                                         *)
(* A sheet body is [kind |-> "sheet", ok, rows, drawings, extras]:         *)
(*   ok       whether ET.fromstring accepts the bytes;                     *)
(*   rows     the <row> children of <sheetData> in document order, each    *)
(*            [r |-> row number (0: no usable r attribute), cells |-> seq];*)
(*   a cell   [ref |-> its r attribute, t |-> its t attribute,             *)
(*            kids |-> its child elements]; a child is                     *)
(*            [tag |-> "v" | "is" | "pic", text, rid];                     *)
(*   drawings the r:id of each <drawing> element;                          *)
(*   extras   other elements that carry an r:id and their own ref          *)
(*            attribute, [rid, ref].                                       *)

NoRid == ""

Kid(tag, text, rid) == [tag |-> tag, text |-> text, rid |-> rid]
Cell(ref, t, kids) == [ref |-> ref, t |-> t, kids |-> kids]
Row(r, cells) == [r |-> r, cells |-> cells]

Update(row, col, value) == [row |-> row, col |-> col, value |-> value]

\* rows.get(excel_row): the dict built at lines 689-694 keeps, for each row
\* number, the last <row> carrying it; a row created later is the only one
\* with its number.  0 stands for "not in the dict".
RowIndex(rows, excelRow) ==
    LET hits == {i \in 1..Len(rows) : rows[i].r = excelRow /\ rows[i].r # 0}
    IN  IF hits = {} THEN 0 ELSE CHOOSE i \in hits : \A j \in hits : j <= i

\* A new row that always goes to the end of sheetData.
RowInsertPosAtEnd(rows, excelRow) == Len(rows) + 1

\* Lines 705-717: the new row goes before the first existing row with a
\* strictly greater number, else to the end.  Rows without r are skipped.
RowInsertPos(rows, excelRow) ==
    LET later == {i \in 1..Len(rows) : rows[i].r # 0 /\ rows[i].r > excelRow}
    IN  IF later = {} THEN Len(rows) + 1
        ELSE CHOOSE i \in later : \A j \in later : i <= j

\* Lines 701-718: locate or create the row element.
EnsureRow(rows, excelRow) ==
    IF RowIndex(rows, excelRow) # 0 THEN rows
    ELSE InsertAt(rows, RowInsertPos(rows, excelRow), Row(excelRow, <<>>))

\* Lines 720-724: the first <c> of the row whose r equals cell_ref, 0 if none.
CellIndex(cells, ref) ==
    LET hits == {i \in 1..Len(cells) : cells[i].ref = ref}
    IN  IF hits = {} THEN 0 ELSE CHOOSE i \in hits : \A j \in hits : i <= j

\* Lines 726-727: ET.SubElement appends the new <c> at the end of the row.
EnsureCell(cells, ref) ==
    IF CellIndex(cells, ref) # 0 THEN cells
    ELSE Append(cells, Cell(ref, "", <<>>))

\* A write that leaves the children the cell had.
WriteInlineKeepingKids(cell, value) ==
    [cell EXCEPT !.t = "inlineStr",
                 !.kids = Append(@, Kid("is", value, NoRid))]

\* Lines 729-738: every child is removed, t becomes inlineStr and the value
\* is written as <is><t>value</t></is>.
WriteInline(cell, value) ==
    [cell EXCEPT !.t = "inlineStr", !.kids = <<Kid("is", value, NoRid)>>]

\* Line 699: cell_ref = f"{_col_to_letter(excel_col)}{excel_row}"
UpdateRef(u) == CellRef(ColToLetter(u.col + 1), u.row + 2)

\* One iteration of the loop at lines 696-738.
ApplyUpdate(rows, u) ==
    LET excelRow == u.row + 2
        ref == UpdateRef(u)
        rows1 == EnsureRow(rows, excelRow)
        ri == RowIndex(rows1, excelRow)
        cells1 == EnsureCell(rows1[ri].cells, ref)
        ci == CellIndex(cells1, ref)
    IN  [rows1 EXCEPT ![ri].cells =
            [cells1 EXCEPT ![ci] = WriteInline(cells1[ci], u.value)]]

RECURSIVE ApplyUpdates(_, _)
ApplyUpdates(rows, us) ==
    IF us = <<>> THEN rows
    ELSE ApplyUpdates(ApplyUpdate(rows, us[1]), SubSeq(us, 2, Len(us)))

\* ExcelProcessor._update_sheet_xml on a well-formed sheet (ET.fromstring
\* raises on the others, see PatchRewrite).
UpdateSheetXml(sheet, us) == [sheet EXCEPT !.rows = ApplyUpdates(sheet.rows, us)]

-----------------------------------------------------------------------------
(* Files and archives.                                                     *)
(*                                                                         *)
(* A file is [exists, zip, parts]: zip says whether zipfile.is_zipfile     *)
(* accepts it, parts are its entries [name, body] in archive order.        *)

NoFile == [exists |-> FALSE, zip |-> FALSE, parts |-> <<>>]
EmptyFile == [exists |-> TRUE, zip |-> FALSE, parts |-> <<>>]
ZipFile(parts) == [exists |-> TRUE, zip |-> TRUE, parts |-> parts]

Part(name, body) == [name |-> name, body |-> body]

\* zf.namelist()
Names(file) == {file.parts[i].name : i \in 1..Len(file.parts)}

\* zf.read(name), for a name of the archive
ReadPart(file, name) ==
    LET i == CHOOSE j \in 1..Len(file.parts) : file.parts[j].name = name
    IN  file.parts[i].body

\* The other bodies:
\*   [kind |-> "rels", ok, rel]         rel: <<[id, target]>>
\*   [kind |-> "drawing", ok, anchors]  anchors: <<[from, embed]>>, from is
\*                                      <<row, col>> or <<>> (no usable from)
\*   [kind |-> "cellimages", ok, items] items: <<[ref, marker, embed, nest]>>
\*   [kind |-> "media", data]           the bytes of an image
\*   [kind |-> "other", data]           any other part
RelsBody(rel) == [kind |-> "rels", ok |-> TRUE, rel |-> rel]
Rel(id, target) == [id |-> id, target |-> target]
DrawingBody(anchors) == [kind |-> "drawing", ok |-> TRUE, anchors |-> anchors]
Anchor(from, embed) == [from |-> from, embed |-> embed]
CellImagesBody(items) == [kind |-> "cellimages", ok |-> TRUE, items |-> items]
MediaBody(data) == [kind |-> "media", data |-> data]
OtherBody(data) == [kind |-> "other", data |-> data]
SheetBody(rows, drawings, extras) ==
    [kind |-> "sheet", ok |-> TRUE, rows |-> rows, drawings |-> drawings,
     extras |-> extras]

\* ET.fromstring(zf.read(path)) succeeds and yields a tree of that kind.
Parses(body, kind) == body.kind = kind /\ body.ok

\* ExcelProcessor._read_relationships: {} when the part is missing or does
\* not parse; later entries with the same Id replace earlier ones.
ReadRelationships(file, relsPath) ==
    IF relsPath = <<>> \/ relsPath \notin Names(file) THEN <<>>
    ELSE LET body == ReadPart(file, relsPath)
         IN  IF ~Parses(body, "rels") THEN <<>>
             ELSE SelectSeq(body.rel, LAMBDA e : e.id # NoRid /\ e.target # <<>>)

\* rels.get(rid): <<>> when absent
RelTarget(rels, rid) ==
    LET hits == {i \in 1..Len(rels) : rels[i].id = rid}
    IN  IF hits = {} THEN <<>>
        ELSE rels[CHOOSE i \in hits : \A j \in hits : j <= i].target

\* os.path.splitext(name)[1].lower().lstrip('.')
ExtOf(name) ==
    CASE name \in {"image1.png", "image5.png"} -> "png"
      [] name = "image2.emf" -> "emf"
      [] name = "image3.tif" -> "tif"
      [] name = "image4" -> ""
      [] name \in {"sheet1.xml", "sheet2.xml", "sheet3.xml", "sheetN.xml",
                   "drawing1.xml", "cellimages.xml", "workbook.xml"} -> "xml"
      [] OTHER -> "rels"

RasterExts == {"png", "jpg", "jpeg", "bmp", "gif", "webp"}
MetafileExts == {"emf", "wmf", "vml"}

\* A data URI: its image format and the bytes it encodes.
DataUri(fmt, data) == [fmt |-> fmt, data |-> data]

\* ExcelProcessor._read_image_as_data_uri: <<uri>>, or <<>> for None.
ReadImageAsDataUri(file, imagePath) ==
    IF imagePath = <<>> \/ imagePath \notin Names(file) THEN <<>>
    ELSE LET ext0 == ExtOf(Basename(imagePath))
             ext == IF ext0 = "" THEN "png" ELSE ext0
         IN  IF ext \in MetafileExts THEN <<>>
             ELSE <<DataUri(IF ext \in RasterExts THEN ext ELSE "png",
                            ReadPart(file, imagePath))>>

\* ExcelProcessor._cell_ref_to_pd_indices: <<<<row_idx, col_idx>>>>, or <<>>
\* for None.  row_idx = int(row_str) - 1.
CellRefToPdIndices(ref) ==
    IF ref.col = <<>> THEN <<>>
    ELSE << <<ref.row - 1, LetterToCol(ref.col) - 1>> >>

\* An entry of an image map under construction.
Entry(key, uri) == [key |-> key, uri |-> uri]

-----------------------------------------------------------------------------
(* ExcelProcessor.extract_image_map and its three passes.  Each pass is    *)
(* modelled by the entries (key, data URI) it adds, in the order it adds   *)
(* them; an image map is the function from keys to the lists of URIs.      *)

RECURSIVE Flatten(_)
Flatten(ss) ==
    IF ss = <<>> THEN <<>> ELSE ss[1] \o Flatten(SubSeq(ss, 2, Len(ss)))

EmptyMap == <<>>

\* if key not in image_map: image_map[key] = []; image_map[key].append(uri)
MapAdd(m, e) ==
    IF e.key \in DOMAIN m THEN [m EXCEPT ![e.key] = Append(@, e.uri)]
    ELSE [k \in DOMAIN m \cup {e.key} |->
            IF k = e.key THEN <<e.uri>> ELSE m[k]]

RECURSIVE MapOf(_, _)
MapOf(m, entries) ==
    IF entries = <<>> THEN m
    ELSE MapOf(MapAdd(m, entries[1]), SubSeq(entries, 2, Len(entries)))

\* --- pass 1: the images of the worksheet object (lines 116-191) ---
\* An image object is [anchor, ref, fp, data, format]: anchor is the
\* (row, col) of anchor._from or <<>>; ref, fp and data are the three byte
\* accessors, each [has, fails, bytes].
Accessor(has, fails, bytes) == [has |-> has, fails |-> fails, bytes |-> bytes]
NoAccessor == Accessor(FALSE, FALSE, MediaBody(""))
ImageObject(anchor, ref, fp, data, format) ==
    [anchor |-> anchor, ref |-> ref, fp |-> fp, data |-> data, format |-> format]

\* Lines 156-171: the if / elif / elif chain over ref, fp and _data.  A
\* failing read of ref or fp raises and the image is skipped; empty bytes
\* are skipped by "if not img_data".  <<bytes>>, or <<>> when skipped.
ObjectImageBytes(img) ==
    LET acc == IF img.ref.has THEN img.ref
               ELSE IF img.fp.has THEN img.fp
               ELSE img.data
    IN  IF ~acc.has \/ acc.fails \/ acc.bytes = MediaBody("") THEN <<>>
        ELSE <<acc.bytes>>

\* Lines 174-180
ObjectImageFormat(img) ==
    LET fmt == IF img.format = "" THEN "png" ELSE img.format
    IN  IF fmt \in RasterExts THEN fmt ELSE "png"

\* Line 151: pd_row_idx = anchor_row - 1
AnchorRowToPdRow(anchorRow) == anchorRow - 1

\* Lines 127-187 for one image: its entries (none when it is skipped).
ObjectImageEntries(img) ==
    IF img.anchor = <<>> THEN <<>>
    ELSE IF AnchorRowToPdRow(img.anchor[1]) < 0 THEN <<>>
    ELSE IF ObjectImageBytes(img) = <<>> THEN <<>>
    ELSE IF img.format \in MetafileExts THEN <<>>
    ELSE <<Entry(<<AnchorRowToPdRow(img.anchor[1]), img.anchor[2]>>,
                 DataUri(ObjectImageFormat(img), ObjectImageBytes(img)[1]))>>

\* Lines 117-121: the worksheet the images are read from.
PickWorksheet(view, n) == IF n <= Len(view.sheets) THEN n ELSE view.active

\* Lines 116-194: nothing is added when load_workbook raises.
ObjectModelEntries(view, n) ==
    IF ~view.loads THEN <<>>
    ELSE LET imgs == view.sheets[PickWorksheet(view, n)]
         IN  Flatten([i \in 1..Len(imgs) |-> ObjectImageEntries(imgs[i])])

\* --- pass 2: ExcelProcessor._extract_drawing_images_map ---
\* Lines 567-623 for one anchor of a drawing part.
DrawingAnchorEntries(file, drawingRelsPath, drawingRels, a) ==
    IF a.from = <<>> \/ a.embed = NoRid THEN <<>>
    ELSE LET imgTarget == RelTarget(drawingRels, a.embed)
             imgPath == ResolveTarget(drawingRelsPath, imgTarget)
             uri == ReadImageAsDataUri(file, imgPath)
         IN  IF imgTarget = <<>> \/ imgPath = <<>> \/ uri = <<>> THEN <<>>
             ELSE IF a.from[1] - 1 < 0 THEN <<>>
             ELSE <<Entry(<<a.from[1] - 1, a.from[2]>>, uri[1])>>

\* Lines 551-623 for one <drawing> relationship id of the sheet.
DrawingRidEntries(file, sheetRelsPath, sheetRels, rid) ==
    LET target == RelTarget(sheetRels, rid)
        drawingPath == ResolveTarget(sheetRelsPath, target)
    IN  IF target = <<>> \/ drawingPath = <<>> \/ drawingPath \notin Names(file)
            THEN <<>>
        ELSE IF ~Parses(ReadPart(file, drawingPath), "drawing") THEN <<>>
        ELSE LET anchors == ReadPart(file, drawingPath).anchors
                 relsPath == RelsForPart(drawingPath)
                 rels == ReadRelationships(file, relsPath)
             IN  Flatten([i \in 1..Len(anchors) |->
                     DrawingAnchorEntries(file, relsPath, rels, anchors[i])])

ExtractDrawingImagesMap(file, n) ==
    IF ~file.exists \/ ~file.zip \/ SheetPath(n) \notin Names(file) THEN <<>>
    ELSE IF ~Parses(ReadPart(file, SheetPath(n)), "sheet") THEN <<>>
    ELSE LET rids == SelectSeq(ReadPart(file, SheetPath(n)).drawings,
                               LAMBDA r : r # NoRid)
             rels == ReadRelationships(file, SheetRelsPath(n))
         IN  Flatten([i \in 1..Len(rids) |->
                 DrawingRidEntries(file, SheetRelsPath(n), rels, rids[i])])

\* --- pass 3: ExcelProcessor._extract_cell_images_map ---
\* target_path.lower().endswith(('.png', '.jpg', ...)), line 252
HasRasterExt(path) == ExtOf(Basename(path)) \in RasterExts

\* 'cellimage' in target.lower(), line 270
IsCellImageTarget(target) == \E i \in 1..Len(target) : target[i] = "cellimages.xml"

\* Lines 239-266 for one element of the sheet that carries an r:id; locRef
\* is the reference _find_cell_location finds for it: its own ref attribute,
\* or the r attribute of the <c> it lies in.
DirectImageEntries(file, n, sheetRels, rid, locRef) ==
    LET target == RelTarget(sheetRels, rid)
        targetPath == ResolveTarget(SheetRelsPath(n), target)
        loc == CellRefToPdIndices(locRef)
        uri == ReadImageAsDataUri(file, targetPath)
    IN  IF rid = NoRid \/ target = <<>> \/ targetPath = <<>> THEN <<>>
        ELSE IF ~HasRasterExt(targetPath) THEN <<>>
        ELSE IF loc = <<>> \/ uri = <<>> THEN <<>>
        ELSE <<Entry(loc[1], uri[1])>>

\* The elements of the sheet with an r:id that can be located, in document
\* order: the children of cells, then the extras.  (A <drawing> element has
\* an r:id too, but neither a reference nor a marker nor an ancestor with
\* one, so line 256 skips it.)
SheetRidElements(sheet) ==
    Flatten([i \in 1..Len(sheet.rows) |->
        Flatten([j \in 1..Len(sheet.rows[i].cells) |->
            LET c == sheet.rows[i].cells[j]
            IN  [k \in 1..Len(c.kids) |->
                    [rid |-> c.kids[k].rid, ref |-> c.ref]]])])
    \o [i \in 1..Len(sheet.extras) |->
            [rid |-> sheet.extras[i].rid, ref |-> sheet.extras[i].ref]]

\* The elements cell_root.iter() visits that have a blip at or below them,
\* each with the embed id _find_blip_embed yields and the location
\* _find_cell_location yields (<<>>: none).  An item is a <cellImage>
\* holding item.nest elements down to and including its <blip>, with an
\* optional ref attribute and an optional from/marker child:
\*   the root sees the first blip and the first marker of the document;
\*   the <cellImage> sees its ref, else its marker (rows and columns of a
\*   marker are returned as they are, lines 434-454);
\*   the elements below see the ref of the <cellImage> above them.
FirstWith(items, Test(_)) ==
    LET hits == {i \in 1..Len(items) : Test(items[i])}
    IN  IF hits = {} THEN 0 ELSE CHOOSE i \in hits : \A j \in hits : i <= j

CellImageItemElements(item) ==
    LET refLoc == CellRefToPdIndices(item.ref)
        own == IF refLoc # <<>> THEN refLoc
               ELSE IF item.marker # <<>> THEN <<item.marker>> ELSE <<>>
    IN  <<[embed |-> item.embed, loc |-> own]>>
        \o [k \in 1..item.nest |-> [embed |-> item.embed, loc |-> refLoc]]

CellImageElements(items) ==
    LET fb == FirstWith(items, LAMBDA it : it.embed # NoRid)
        fm == FirstWith(items, LAMBDA it : it.marker # <<>>)
    IN  <<[embed |-> IF fb = 0 THEN NoRid ELSE items[fb].embed,
           loc |-> IF fm = 0 THEN <<>> ELSE <<items[fm].marker>>]>>
        \o Flatten([i \in 1..Len(items) |-> CellImageItemElements(items[i])])

\* Lines 285-307 for one element of the cell-image part.
CellImageElementEntries(file, cellRelsPath, cellRels, el) ==
    LET imgTarget == RelTarget(cellRels, el.embed)
        imgPath == ResolveTarget(cellRelsPath, imgTarget)
        uri == ReadImageAsDataUri(file, imgPath)
    IN  IF el.embed = NoRid \/ imgTarget = <<>> \/ imgPath = <<>> THEN <<>>
        ELSE IF uri = <<>> \/ el.loc = <<>> THEN <<>>
        ELSE <<Entry(el.loc[1], uri[1])>>

\* Lines 269-307 for one relationship of the sheet.
CellImageRelEntries(file, n, rel) ==
    LET targetPath == ResolveTarget(SheetRelsPath(n), rel.target)
    IN  IF ~IsCellImageTarget(rel.target) THEN <<>>
        ELSE IF targetPath = <<>> \/ targetPath \notin Names(file) THEN <<>>
        ELSE IF ~Parses(ReadPart(file, targetPath), "cellimages") THEN <<>>
        ELSE LET els == CellImageElements(ReadPart(file, targetPath).items)
                 relsPath == RelsForPart(targetPath)
                 rels == ReadRelationships(file, relsPath)
             IN  Flatten([i \in 1..Len(els) |->
                     CellImageElementEntries(file, relsPath, rels, els[i])])

ExtractCellImagesMap(file, n) ==
    IF ~file.exists \/ ~file.zip \/ SheetPath(n) \notin Names(file) THEN <<>>
    ELSE IF ~Parses(ReadPart(file, SheetPath(n)), "sheet") THEN <<>>
    ELSE LET sheet == ReadPart(file, SheetPath(n))
             rels == ReadRelationships(file, SheetRelsPath(n))
             els == SheetRidElements(sheet)
         IN  Flatten([i \in 1..Len(els) |->
                 DirectImageEntries(file, n, rels, els[i].rid, els[i].ref)])
             \o Flatten([i \in 1..Len(rels) |->
                 CellImageRelEntries(file, n, rels[i])])

\* ExcelProcessor.extract_image_map(temp_file_path, sheet_number): the path
\* must exist and end in .xlsx; the three passes are merged key by key.
ExtractImageMap(file, isXlsxName, view, n) ==
    IF ~file.exists \/ ~isXlsxName THEN EmptyMap
    ELSE MapOf(EmptyMap,
               ObjectModelEntries(view, n)
               \o ExtractDrawingImagesMap(file, n)
               \o ExtractCellImagesMap(file, n))

-----------------------------------------------------------------------------
(* The packages the model starts from.                                     *)

BlipDepth == 1      \* elements from a <cellImage> down to its <blip>

ColA == <<1>>
ColC == <<3>>

TextCell(letters, row, text) ==
    Cell(CellRef(letters, row), "str", <<Kid("v", text, NoRid)>>)

\* Where the one image of a package sits: mech is how it is stored, style
\* is what the relationship targets are relative to ("part": the directory
\* of the part that owns the relationship; "rels": the directory of the
\* .rels file), fileRow its 1-based row in the file, loc how a cell-image
\* item states its place, objModel whether load_workbook succeeds.
ImageScenarios ==
    [mech : {"drawing"}, style : {"part", "rels"}, fileRow : {1, 3},
     loc : {"ref"}, objModel : {"ok", "fails"}]
    \cup [mech : {"cellimage"}, style : {"part", "rels"}, fileRow : {1, 3},
          loc : {"ref", "marker"}, objModel : {"ok"}]
    \cup [mech : {"direct"}, style : {"part", "rels"}, fileRow : {1, 3},
          loc : {"ref"}, objModel : {"ok"}]

TargetFrom(style, rel) == IF style = "rels" THEN <<Up>> \o rel ELSE rel

MediaPath == <<"xl", "media", "image1.png">>
DrawingPath == <<"xl", "drawings", "drawing1.xml">>
CellImagesPath == <<"xl", "cellimages.xml">>
TheImage == MediaBody("img1")

FixedParts ==
    <<Part(<<"[Content_Types].xml">>, OtherBody("types")),
      Part(<<"xl", "workbook.xml">>, OtherBody("workbook"))>>

SecondSheet ==
    Part(SheetPath(2), SheetBody(<<Row(2, <<TextCell(ColA, 2, "s2")>>)>>, <<>>, <<>>))

\* Rows 1..3 of a sheet with one text column; with mech "direct" the cell
\* of the image row also holds an element that refers to the image.
ImageSheetRows(sc) ==
    [r \in 1..3 |->
        Row(r, <<IF sc.mech = "direct" /\ sc.fileRow = r
                 THEN Cell(CellRef(ColA, r), "str",
                           <<Kid("v", "t", NoRid), Kid("pic", "", "rId1")>>)
                 ELSE TextCell(ColA, r, "t")>>)]

ImageSheetRels(sc) ==
    CASE sc.mech = "drawing" ->
            <<Rel("rId1", TargetFrom(sc.style, <<Up, "drawings", "drawing1.xml">>))>>
      [] sc.mech = "cellimage" ->
            <<Rel("rId1", TargetFrom(sc.style, <<Up, "cellimages.xml">>))>>
      [] OTHER ->
            <<Rel("rId1", TargetFrom(sc.style, <<Up, "media", "image1.png">>))>>

ImageParts(sc) ==
    <<Part(SheetPath(1),
           SheetBody(ImageSheetRows(sc),
                     IF sc.mech = "drawing" THEN <<"rId1">> ELSE <<>>, <<>>)),
      Part(SheetRelsPath(1), RelsBody(ImageSheetRels(sc))),
      Part(MediaPath, TheImage)>>
    \o (CASE sc.mech = "drawing" ->
               <<Part(DrawingPath,
                      DrawingBody(<<Anchor(<<sc.fileRow - 1, 0>>, "rId1")>>)),
                 Part(RelsForPart(DrawingPath),
                      RelsBody(<<Rel("rId1",
                          TargetFrom(sc.style, <<Up, "media", "image1.png">>))>>))>>
          [] sc.mech = "cellimage" ->
               <<Part(CellImagesPath,
                      CellImagesBody(<<[ref |-> IF sc.loc = "ref"
                                                THEN CellRef(ColA, sc.fileRow)
                                                ELSE NoRef,
                                        marker |-> IF sc.loc = "marker"
                                                   THEN <<sc.fileRow - 1, 0>>
                                                   ELSE <<>>,
                                        embed |-> "rId1",
                                        nest |-> BlipDepth]>>)),
                 Part(RelsForPart(CellImagesPath),
                      RelsBody(<<Rel("rId1",
                          TargetFrom(sc.style, <<"media", "image1.png">>))>>))>>
          [] OTHER -> <<>>)

\* What load_workbook makes of the package: only a drawing anchor becomes an
\* image of the worksheet object.
ImageView(sc, nsheets) ==
    [loads |-> sc.objModel = "ok",
     active |-> 1,
     sheets |-> [i \in 1..nsheets |->
        IF i = 1 /\ sc.mech = "drawing"
        THEN <<ImageObject(<<sc.fileRow - 1, 0>>,
                           Accessor(TRUE, FALSE, TheImage),
                           NoAccessor, NoAccessor, "png")>>
        ELSE <<>>]]

Package(file, view, sc) == [file |-> file, view |-> view, scenario |-> sc]

ImagePackages ==
    {Package(ZipFile(FixedParts \o ImageParts(sc)
                     \o IF k = 2 THEN <<SecondSheet>> ELSE <<>>),
             ImageView(sc, k), sc) : sc \in ImageScenarios, k \in {1, 2}}

\* Sheets without images: any ascending choice of the rows 2..4, every row
\* with the same cells.
NoImage == [mech |-> "none", style |-> "part", fileRow |-> 0, loc |-> "ref",
            objModel |-> "ok"]

CellPatterns == {<<>>, <<ColA>>, <<ColA, ColC>>}

PlainRows(present, pattern) ==
    LET nums == SelectSeq(<<2, 3, 4>>, LAMBDA r : r \in present)
    IN  [i \in 1..Len(nums) |->
            Row(nums[i], [j \in 1..Len(pattern) |->
                             TextCell(pattern[j], nums[i], "t")])]

PlainView(nsheets, loads) ==
    [loads |-> loads, active |-> 1, sheets |-> [i \in 1..nsheets |-> <<>>]]

PlainPackages ==
    {Package(ZipFile(FixedParts
                     \o <<Part(SheetPath(1),
                               SheetBody(PlainRows(present, pattern), <<>>, <<>>))>>),
             PlainView(1, TRUE), NoImage) :
        present \in SUBSET {2, 3, 4}, pattern \in CellPatterns}

\* A file that is no archive, and an archive whose sheet part is not XML.
BrokenPackages ==
    {Package(EmptyFile, PlainView(1, FALSE), NoImage),
     Package(ZipFile(FixedParts
                     \o <<Part(SheetPath(1),
                               [SheetBody(<<>>, <<>>, <<>>) EXCEPT !.ok = FALSE])>>),
             PlainView(1, FALSE), NoImage)}

Packages == ImagePackages \cup PlainPackages \cup BrokenPackages

\* The update batches: up to MaxBatch updates of cells, the k-th update of
\* a batch writing the k-th value.
ValueAt(k) ==
    CASE k = 1 -> "v1" [] k = 2 -> "v2" [] k = 3 -> "v3" [] OTHER -> "v4"

UpdCells == (0..MaxUpdRow) \X (0..MaxUpdCol)

Batches ==
    {[k \in 1..Len(cs) |-> Update(cs[k][1], cs[k][2], ValueAt(k))] :
        cs \in SeqsUpTo(UpdCells, MaxBatch)}

-----------------------------------------------------------------------------
(* ExcelProcessor.apply_sheet_updates_preserve_images, step by step, with  *)
(* an extract_image_map of the same path and sheet before and after it.    *)

NoSheet == SheetBody(<<>>, <<>>, <<>>)

\* No tool invocation takes part in this specification.
NoWb == [sheets |-> <<>>, active |-> 0]
NoTable == [cols |-> 0, rows |-> <<>>]
NoExc == [raised |-> FALSE, about |-> ""]
NoUpload == [names |-> <<>>, readable |-> FALSE, wbLoads |-> FALSE, tables |-> <<>>,
             pkg |-> NoFile, view |-> [loads |-> FALSE, active |-> 0, sheets |-> <<>>]]

\* No coordinate function is called in this specification.
NoClause == [s |-> <<>>, valid |-> FALSE, isRange |-> FALSE,
             col |-> 0, row |-> 0, col2 |-> 0, row2 |-> 0]
NoArg == [clause |-> NoClause, valid |-> FALSE, maxRows |-> 0, single |-> FALSE]
NoOut == [kind |-> "none"]

CoordIdle ==
    /\ fn = "none"
    /\ arg = NoArg
    /\ out = NoOut
    /\ cpc = "idle"

\* extract_image_map is not called on its own in this specification.
NoExIn == [kind |-> "none"]
NoExOut == [raised |-> FALSE, map |-> <<>>]

ExtractIdle ==
    /\ exIn = NoExIn
    /\ exOut = NoExOut
    /\ epc = "idle"

NoName == [given |-> FALSE, chars |-> <<>>]

ToolIdle ==
    /\ tool = "none"
    /\ outputName = NoName
    /\ upload = NoUpload
    /\ sheetNumber = 0
    /\ inExprs = <<>>
    /\ outExpr = <<>>
    /\ tpc = "idle"
    /\ temps = <<>>
    /\ pathIn = ""
    /\ pathOut = ""
    /\ df = NoTable
    /\ wb = NoWb
    /\ isXlsx = FALSE
    /\ imageMap = EmptyMap
    /\ ws = 0
    /\ curRow = 0
    /\ calls = <<>>
    /\ failed = {}
    /\ saveFailed = FALSE
    /\ msgs = <<>>
    /\ exc = NoExc

InitPkg ==
    \E pk \in Packages, n \in 1..MaxSheet, us \in Batches :
        /\ archive = pk.file
        /\ wbView = pk.view
        /\ scenario = pk.scenario
        /\ original = pk.file
        /\ sheetNo = n
        /\ updates = us
        /\ ppc = "init"
        /\ presult = "none"
        /\ tmpFile = NoFile
        /\ sheetXml = NoSheet
        /\ mapBefore = EmptyMap
        /\ mapAfter = EmptyMap
        /\ ToolIdle
        /\ CoordIdle
        /\ ExtractIdle

ExtractBefore ==
    /\ UNCHANGED <<toolVars, coordVars, extractVars>>
    /\ ppc = "init"
    /\ mapBefore' = ExtractImageMap(archive, TRUE, wbView, sheetNo)
    /\ ppc' = "start"
    /\ UNCHANGED <<archive, wbView, sheetNo, updates, tmpFile, sheetXml,
                   presult, original, scenario, mapAfter>>

\* Lines 656-664: the two early returns, then mkstemp.
PatchBegin ==
    /\ UNCHANGED <<toolVars, coordVars, extractVars>>
    /\ ppc = "start"
    /\ IF updates = <<>> \/ ~archive.exists \/ ~archive.zip
       THEN /\ ppc' = "done"
            /\ presult' = "returned"
            /\ UNCHANGED tmpFile
       ELSE /\ ppc' = "opened"
            /\ tmpFile' = EmptyFile
            /\ UNCHANGED presult
    /\ UNCHANGED <<archive, wbView, sheetNo, updates, sheetXml, original,
                   scenario, mapBefore, mapAfter>>

\* Lines 666-672: return when the sheet part is missing; _update_sheet_xml
\* raises when the part is not XML; else zout is opened on tmp_path.
PatchRead ==
    /\ UNCHANGED <<toolVars, coordVars, extractVars>>
    /\ ppc = "opened"
    /\ IF SheetPath(sheetNo) \notin Names(archive)
       THEN /\ ppc' = "done"
            /\ presult' = "returned"
            /\ UNCHANGED <<sheetXml, tmpFile>>
       ELSE IF ~Parses(ReadPart(archive, SheetPath(sheetNo)), "sheet")
       THEN /\ ppc' = "done"
            /\ presult' = "raised"
            /\ UNCHANGED <<sheetXml, tmpFile>>
       ELSE /\ ppc' = "copy"
            /\ sheetXml' = UpdateSheetXml(ReadPart(archive, SheetPath(sheetNo)),
                                          updates)
            /\ tmpFile' = EmptyFile
            /\ UNCHANGED presult
    /\ UNCHANGED <<archive, wbView, sheetNo, updates, original, scenario,
                   mapBefore, mapAfter>>

\* A copy loop that loses the media parts, as a re-save through the object
\* model may.
CopiedPartsLosingMedia(parts, sheetPath) ==
    SelectSeq(parts, LAMBDA item : item.name # sheetPath /\ item.body.kind # "media")

\* Lines 673-676: every item but the sheet part, in archive order.
CopiedParts(parts, sheetPath) ==
    SelectSeq(parts, LAMBDA item : item.name # sheetPath)

\* A copy loop that rewrites the archive at the target path itself.
PatchCopyInPlace ==
    /\ UNCHANGED <<toolVars, coordVars, extractVars>>
    /\ ppc = "copy"
    /\ archive' = [archive EXCEPT
                      !.parts = CopiedParts(archive.parts, SheetPath(sheetNo))]
    /\ tmpFile' = [tmpFile EXCEPT
                      !.parts = CopiedParts(archive.parts, SheetPath(sheetNo))]
    /\ ppc' = "copied"
    /\ UNCHANGED <<wbView, sheetNo, updates, sheetXml, presult,
                   original, scenario, mapBefore, mapAfter>>

PatchCopy ==
    /\ UNCHANGED <<toolVars, coordVars, extractVars>>
    /\ ppc = "copy"
    /\ tmpFile' = [tmpFile EXCEPT
                      !.parts = CopiedParts(archive.parts, SheetPath(sheetNo))]
    /\ ppc' = "copied"
    /\ UNCHANGED <<archive, wbView, sheetNo, updates, sheetXml, presult,
                   original, scenario, mapBefore, mapAfter>>

\* A write to tmp_path fails (OSError) after k items: the exception leaves
\* both with blocks and the call.
PatchCopyFails ==
    /\ UNCHANGED <<toolVars, coordVars, extractVars>>
    /\ ppc = "copy"
    /\ \E k \in 0..Len(CopiedParts(archive.parts, SheetPath(sheetNo))) :
          tmpFile' = [tmpFile EXCEPT
              !.parts = SubSeq(CopiedParts(archive.parts, SheetPath(sheetNo)), 1, k)]
    /\ ppc' = "done"
    /\ presult' = "raised"
    /\ UNCHANGED <<archive, wbView, sheetNo, updates, sheetXml, original,
                   scenario, mapBefore, mapAfter>>

\* Line 677 and the end of the with blocks: the sheet part is written last
\* and the archive is closed.
PatchWriteSheet ==
    /\ UNCHANGED <<toolVars, coordVars, extractVars>>
    /\ ppc = "copied"
    /\ tmpFile' = ZipFile(Append(tmpFile.parts, Part(SheetPath(sheetNo), sheetXml)))
    /\ ppc' = "written"
    /\ UNCHANGED <<archive, wbView, sheetNo, updates, sheetXml, presult,
                   original, scenario, mapBefore, mapAfter>>

\* Line 679: os.replace(tmp_path, temp_file_path)
PatchReplace ==
    /\ UNCHANGED <<toolVars, coordVars, extractVars>>
    /\ ppc = "written"
    /\ archive' = tmpFile
    /\ tmpFile' = NoFile
    /\ ppc' = "done"
    /\ presult' = "returned"
    /\ UNCHANGED <<wbView, sheetNo, updates, sheetXml, original, scenario,
                   mapBefore, mapAfter>>

ExtractAfter ==
    /\ UNCHANGED <<toolVars, coordVars, extractVars>>
    /\ ppc = "done"
    /\ mapAfter' = ExtractImageMap(archive, TRUE, wbView, sheetNo)
    /\ ppc' = "end"
    /\ UNCHANGED <<archive, wbView, sheetNo, updates, tmpFile, sheetXml,
                   presult, original, scenario, mapBefore>>

NextPkg ==
    \/ ExtractBefore
    \/ PatchBegin
    \/ PatchRead
    \/ PatchCopy
    \/ PatchCopyFails
    \/ PatchWriteSheet
    \/ PatchReplace
    \/ ExtractAfter

Spec == InitPkg /\ [][NextPkg]_vars

-----------------------------------------------------------------------------
(* Claims about the sheet patcher and the image map extractor.             *)

PatchEnded == ppc \in {"done", "end"}

PatchApplies ==
    /\ updates # <<>>
    /\ original.exists /\ original.zip
    /\ SheetPath(sheetNo) \in Names(original)

\* C1: after apply_sheet_updates_preserve_images with a non-empty batch on
\* a package that contains xl/worksheets/sheet<n>.xml, the archive has
\* exactly the part names it had before, and every part other than the
\* target sheet part has the content it had before.
C1_OnlySheetPartDiffers ==
    (PatchEnded /\ PatchApplies) =>
        /\ archive.exists /\ archive.zip
        /\ Len(archive.parts) = Len(original.parts)
        /\ Names(archive) = Names(original)
        /\ \A name \in Names(original) \ {SheetPath(sheetNo)} :
              ReadPart(archive, name) = ReadPart(original, name)

\* A patched package with a drawing and a media part whose sheet part changed.
C1_Witness ==
    /\ PatchEnded /\ PatchApplies
    /\ presult = "returned"
    /\ scenario.mech = "drawing"
    /\ MediaPath \in Names(archive)
    /\ ReadPart(archive, SheetPath(sheetNo)) # ReadPart(original, SheetPath(sheetNo))

\* C2: extract_image_map after apply_sheet_updates_preserve_images returns
\* the map extract_image_map returned before it, for every package and
\* every batch.
C2_PatchIsImageMapNeutral == ppc = "end" => mapAfter = mapBefore


\* C3: in all three passes an image located at file row N is keyed at
\* data-row index N - 2, and an image located in the header row (N = 1) is
\* never put in the map.
C3_RowConvention ==
    (ppc # "init" /\ scenario.mech # "none" /\ sheetNo = 1) =>
        \A key \in DOMAIN mapBefore :
            key[1] = scenario.fileRow - 2 /\ key[1] >= 0

\* C4: for a package holding exactly one image at file row 3, column A,
\* extract_image_map returns a map whose only key is (1, 0) with exactly one
\* entry, whichever mechanism stores the image; for a sheet with no drawing
\* or image relationships it returns the empty map.
C4_OneImageOneEntry ==
    (ppc # "init" /\ sheetNo = 1 /\ scenario.objModel = "ok") =>
        /\ (scenario.mech # "none" /\ scenario.fileRow = 3) =>
              /\ DOMAIN mapBefore = {<<1, 0>>}
              /\ Len(mapBefore[<<1, 0>>]) = 1
        /\ scenario.mech = "none" => mapBefore = EmptyMap

-----------------------------------------------------------------------------
(* One invocation of a tool: tables, uploads and column expressions.       *)

MaxRows == 2        \* data rows of an uploaded table

ImageTools == {"single_column_image_analysis", "multi_column_image_analysis"}
TextTools == {"single_column_text_analysis", "multi_column_text_analysis"}
WorkbookTools == {"excel_manipulator", "chart_generator"}
Tools == ImageTools \cup TextTools \cup WorkbookTools

\* A table is the data rows under a header row: a DataFrame, or the grid of
\* one worksheet. An empty cell (NaN, None) is the empty string.
Table(cols, rows) == [cols |-> cols, rows |-> rows]

TableCell(t, i, c) ==
    IF i + 1 \in 1..Len(t.rows) /\ c + 1 \in 1..t.cols THEN t.rows[i + 1][c + 1]
    ELSE ""

\* "while col >= len(df.columns): df[len(df.columns)] = ''" followed by
\* "df.iat[i, col] = value"; ws.cell(row=i+2, column=col+1).value = value
\* has the same effect on the grid of a worksheet.
SetCell(t, i, c, value) ==
    LET ncols == IF c + 1 > t.cols THEN c + 1 ELSE t.cols
        nrows == IF i + 1 > Len(t.rows) THEN i + 1 ELSE Len(t.rows)
    IN  Table(ncols,
              [r \in 1..nrows |->
                  [k \in 1..ncols |->
                      IF r = i + 1 /\ k = c + 1 THEN value
                      ELSE TableCell(t, r - 1, k - 1)]])

Max(S) == CHOOSE x \in S : \A y \in S : y <= x
Min(S) == CHOOSE x \in S : \A y \in S : x <= y

\* str.strip() of a text, a sequence of characters.
Space == " "

StripText(s) ==
    LET inner == {i \in 1..Len(s) : s[i] # Space}
    IN  IF inner = {} THEN <<>> ELSE SubSeq(s, Min(inner), Max(inner))

\* pd.read_excel on one worksheet part: row 1 is the header, the table is as
\* wide as the rightmost cell and as long as the last row.
CellText(c) ==
    LET texts == SelectSeq(c.kids, LAMBDA k : k.tag \in {"v", "is"})
    IN  IF texts = <<>> THEN "" ELSE texts[1].text

SheetTable(sheet) ==
    LET cells == Flatten([i \in 1..Len(sheet.rows) |-> sheet.rows[i].cells])
        ncols == Max({0} \cup {LetterToCol(cells[j].ref.col) : j \in 1..Len(cells)})
        last == Max({1} \cup {sheet.rows[i].r : i \in 1..Len(sheet.rows)})
        At(r, k) == SelectSeq(cells, LAMBDA c :
                        c.ref.row = r /\ LetterToCol(c.ref.col) = k)
    IN  Table(ncols,
              [r \in 1..(last - 1) |->
                  [k \in 1..ncols |->
                      IF At(r + 1, k) = <<>> THEN "" ELSE CellText(At(r + 1, k)[1])]])

\* An uploaded file: its extension, whether pandas can read it, whether
\* openpyxl can load it, the table of each sheet, and for a spreadsheet the
\* package and what load_workbook makes of its images.
Upload(names, readable, wbLoads, tables, pkg, view) ==
    [names |-> names, readable |-> readable, wbLoads |-> wbLoads, tables |-> tables,
     pkg |-> pkg, view |-> view]

\* A candidate file name: its stem, its extension in lower case, and whether
\* the whole name is a run of 32 to 36 hex digits and dashes before the
\* extension.
FileName(stem, ext, uuid) == [stem |-> stem, ext |-> ext, uuid |-> uuid]

SupportedExts == {".xlsx", ".csv", ".xls"}
DefaultName == FileName("output", ".xlsx", FALSE)

\* best_filename: the first candidate that ends in a supported extension and
\* is no uuid name, else "output.xlsx".
BestFilename(names) ==
    LET good == {k \in 1..Len(names) :
                    names[k].ext \in SupportedExts /\ ~names[k].uuid}
    IN  IF good = {} THEN DefaultName
        ELSE names[CHOOSE k \in good : \A j \in good : k <= j]

\* ext: the extension of best_filename, which suffixes both temporary files
\* and selects the reader.
LoadExt == BestFilename(upload.names).ext

Named(ext) == <<FileName("data", ext, FALSE)>>

NameRows == UNION {[1..n -> {"", "a"}] : n \in 0..MaxRows}

CsvTables == {Table(2, [r \in 1..Len(names) |-> <<names[r], "1">>]) : names \in NameRows}

CsvUploads ==
    {Upload(Named(".csv"), TRUE, FALSE, <<t>>, EmptyFile, PlainView(1, FALSE)) : t \in CsvTables}
    \cup {Upload(Named(".csv"), FALSE, FALSE, <<>>, EmptyFile, PlainView(1, FALSE))}

SheetCount(file) == Cardinality({n \in 1..MaxSheet : SheetPath(n) \in Names(file)})

PackageTables(file) ==
    [n \in 1..SheetCount(file) |-> SheetTable(ReadPart(file, SheetPath(n)))]

ToolScenarios == {sc \in ImageScenarios :
                     sc.mech = "drawing" /\ sc.style = "part" /\ sc.objModel = "ok"}

ToolPackages ==
    {p \in ImagePackages : p.scenario \in ToolScenarios}
    \cup {p \in PlainPackages :
             ReadPart(p.file, SheetPath(1)).rows = PlainRows({2, 4}, <<ColA>>)}

XlsxUploads ==
    {Upload(Named(".xlsx"), TRUE, loads, PackageTables(p.file), p.file, p.view) :
        p \in ToolPackages, loads \in BOOLEAN}

XlsUploads ==
    {Upload(Named(".xls"), TRUE, FALSE, <<t>>, EmptyFile, PlainView(1, FALSE)) :
        t \in {u \in CsvTables : Len(u.rows) = MaxRows /\ u.rows[1][1] = "a"}}

\* Names the loader does not take: a macro workbook and a text file named
\* by their own extensions, a spreadsheet under a uuid name, a spreadsheet
\* with a second, usable candidate name, and a file without any name.
OddNames ==
    {<<FileName("macro", ".xlsm", FALSE)>>,
     <<FileName("0f8fad5b", ".xlsx", TRUE)>>,
     <<FileName("macro", ".xlsm", FALSE), FileName("data", ".xlsx", FALSE)>>,
     <<>>}

OddUploads ==
    {Upload(names, TRUE, TRUE, PackageTables(p.file), p.file, p.view) :
        names \in OddNames,
        p \in {q \in ToolPackages : q.scenario.mech = "none"}}
    \cup {Upload(<<FileName("notes", ".txt", FALSE)>>, FALSE, FALSE, <<>>,
                 EmptyFile, PlainView(1, FALSE))}

Uploads == CsvUploads \cup XlsxUploads \cup XlsUploads \cup OddUploads

\* A column expression is its clauses (split at ","), a clause its parts
\* (split at ":"), a part its letters and its row number.
Tok(letters, n) == [col |-> letters, row |-> n]
ColB == <<2>>

\* ExcelProcessor.parse_range: the column of the first part, the rows from
\* the first part to the second (to the last row when there is one part).
ParsePart(part) ==
    <<LetterToCol(part.col) - 1, IF part.row - 2 > 0 THEN part.row - 2 ELSE 0>>

ParseRange(clause, maxRows) ==
    LET first == ParsePart(clause[1])
        er == IF Len(clause) > 1 THEN ParsePart(clause[2])[2] ELSE maxRows - 1
    IN  [col_idx |-> first[1],
         start_row |-> first[2],
         end_row |-> IF er < maxRows - 1 THEN er ELSE maxRows - 1,
         col_name |-> clause[1].col]

GetIndicesList(expr, maxRows) == [k \in 1..Len(expr) |-> ParseRange(expr[k], maxRows)]

InClauses == {<<Tok(ColA, 2)>>, <<Tok(ColA, 3)>>, <<Tok(ColC, 2)>>,
              <<Tok(ColA, 2), Tok(ColA, 2)>>}
OutClauses == {<<Tok(ColB, 2)>>, <<Tok(ColC, 2)>>, <<Tok(ColB, 3)>>}

InExprsOf(t) ==
    IF t = "single_column_image_analysis" THEN {<<c>> : c \in InClauses}
    ELSE IF t = "multi_column_image_analysis"
    THEN {<<c>> : c \in InClauses} \cup {<<<<Tok(ColA, 2)>>, <<Tok(ColC, 2)>>>>}
    ELSE {<<<<Tok(ColA, 2)>>>>}

\* The output name parameter: absent, empty, blank, a name, a padded name.
\* single_column_image_analysis, chart_generator and the text tools have no
\* such parameter.
GivenName(chars) == [given |-> TRUE, chars |-> chars]

OutputNamesOf(t) ==
    IF t \in {"multi_column_image_analysis", "excel_manipulator"}
    THEN {NoName, GivenName(<<>>), GivenName(<<Space>>), GivenName(<<"N">>),
          GivenName(<<Space, "N", Space>>)}
    ELSE {NoName}

SheetNumbersOf(t) ==
    IF t \in ImageTools \cup {"excel_manipulator"} THEN 1..MaxSheet ELSE {1}

PkgIdle ==
    /\ archive = NoFile
    /\ wbView = PlainView(1, FALSE)
    /\ sheetNo = 0
    /\ updates = <<>>
    /\ ppc = "idle"
    /\ tmpFile = NoFile
    /\ sheetXml = NoSheet
    /\ presult = ""
    /\ original = NoFile
    /\ scenario = NoImage
    /\ mapBefore = EmptyMap
    /\ mapAfter = EmptyMap

InitTool ==
    /\ PkgIdle
    /\ CoordIdle
    /\ ExtractIdle
    /\ tool \in Tools
    /\ outputName \in OutputNamesOf(tool)
    /\ upload \in Uploads
    /\ sheetNumber \in SheetNumbersOf(tool)
    /\ inExprs \in InExprsOf(tool)
    /\ outExpr \in (IF tool \in ImageTools THEN OutClauses ELSE {<<Tok(ColC, 2)>>})
    /\ tpc = "start"
    /\ temps = <<>>
    /\ pathIn = ""
    /\ pathOut = ""
    /\ df = NoTable
    /\ wb = NoWb
    /\ isXlsx = FALSE
    /\ imageMap = EmptyMap
    /\ ws = 0
    /\ curRow = 0
    /\ calls = <<>>
    /\ failed = {}
    /\ saveFailed = FALSE
    /\ msgs = <<>>
    /\ exc = NoExc

-----------------------------------------------------------------------------
(* ExcelProcessor.load_file_with_copy and the start of each _invoke.       *)

\* What a file on disk holds: the uploaded bytes, or what wb.save wrote.
UploadContent(u) == [kind |-> "upload", tables |-> u.tables, pkg |-> u.pkg]
SavedContent(book) == [kind |-> "saved", tables |-> book.sheets, pkg |-> NoFile]

TempIn == "temp_input_path"
TempOut == "temp_output_path"
NewOut == "new_path_out"

\* Files as a function from the paths that exist to their content.
WithFile(files, path, content) ==
    [q \in DOMAIN files \cup {path} |-> IF q = path THEN content ELSE files[q]]

WithoutFiles(files, paths) == [q \in DOMAIN files \ paths |-> files[q]]

NoFiles == WithoutFiles(<<>>, {})

\* clean_paths removes every listed path that exists.
CleanPaths(files, paths) == WithoutFiles(files, paths)

Workbook(tables) == [sheets |-> tables, active |-> 1]

Raised(about) == [raised |-> TRUE, about |-> about]

NoData == [kind |-> "none", tables |-> <<>>, pkg |-> NoFile]
TextMessage(about, names) == [type |-> "text", about |-> about, names |-> names,
                              data |-> NoData]
BlobMessage(data, saveAs) ==
    [type |-> "blob", about |-> "file", names |-> <<>>, data |-> data, save_as |-> saveAs]

\* A file name handed to the caller: a prefix, a stem and an extension.
OutName(prefix, stem, ext) == [prefix |-> prefix, stem |-> stem, ext |-> ext]

\* origin_name: the best_filename the loader returned.
OriginName == BestFilename(upload.names)

\* "custom_file_name and custom_file_name.strip()"
IsBlank(name) == ~name.given \/ StripText(name.chars) = <<>>

\* new_filename of save_output_file: the stripped custom name if there is
\* one, else smart_<base name>, with .xlsx.
NewFilename(originalName, customName) ==
    IF ~IsBlank(customName) THEN OutName("", StripText(customName.chars), ".xlsx")
    ELSE OutName("smart_", <<originalName.stem>>, ".xlsx")

\* The name each tool emits. single_column_image_analysis passes no custom
\* name; multi_column_image_analysis replaces a blank one by the stem of
\* origin_name before the call; chart_generator emits origin_name, whose
\* extension it sets to .xlsx when it made a new workbook.
SaveAs ==
    CASE tool = "single_column_image_analysis" -> NewFilename(OriginName, NoName)
      [] tool = "multi_column_image_analysis" ->
            NewFilename(OriginName,
                        IF IsBlank(outputName) THEN GivenName(<<OriginName.stem>>)
                        ELSE outputName)
      [] tool = "chart_generator" ->
            IF LoadExt = ".xlsx" /\ upload.wbLoads
            THEN OutName("", <<OriginName.stem>>, OriginName.ext)
            ELSE OutName("", <<OriginName.stem>>, ".xlsx")
      [] OTHER -> NewFilename(OriginName, outputName)


\* The sheet_number that reaches load_file_with_copy: the text tools and the
\* chart generator load through the default, sheet 1.
LoadedSheet == IF tool \in ImageTools \cup {"excel_manipulator"} THEN sheetNumber ELSE 1

\* pd.read_csv / pd.read_excel(sheet_name=sheet_number - 1) raises.
ReadRaises ==
    \/ ~upload.readable
    \/ LoadExt # ".csv" /\ LoadedSheet > Len(upload.tables)

LoadedTable == IF LoadExt = ".csv" THEN upload.tables[1] ELSE upload.tables[LoadedSheet]

\* load_workbook(temp_output_path) is tried for .xlsx only; wb stays None
\* when it raises.
LoadedWorkbook ==
    IF LoadExt = ".xlsx" /\ upload.wbLoads THEN Workbook(upload.tables) ELSE NoWb

\* The read raises: load_file_with_copy removes both temporary files and
\* re-raises. The loading call of single_column_text_analysis is inside its
\* try block, whose handler yields a text message; every other tool calls
\* the loader outside any try block.
LoadRaises ==
    /\ tpc = "start"
    /\ ReadRaises
    /\ temps' = CleanPaths(WithFile(WithFile(temps, TempIn, UploadContent(upload)),
                                    TempOut, UploadContent(upload)),
                           {TempIn, TempOut})
    /\ IF tool = "single_column_text_analysis"
       THEN /\ msgs' = Append(msgs, TextMessage("load", <<>>))
            /\ exc' = exc
       ELSE /\ exc' = Raised(IF upload.readable THEN "sheet" ELSE "file")
            /\ msgs' = msgs
    /\ tpc' = "returned"
    /\ UNCHANGED <<tool, outputName, upload, sheetNumber, inExprs, outExpr, pathIn, pathOut,
                   df, wb, isXlsx, imageMap, ws, curRow, calls, failed, saveFailed>>
    /\ UNCHANGED <<pkgVars, coordVars, extractVars>>

\* The loader returns its tuple to an image tool, the manipulator or the
\* chart generator.
LoadReturns ==
    /\ tpc = "start"
    /\ ~ReadRaises
    /\ tool \notin TextTools
    /\ temps' = WithFile(WithFile(temps, TempIn, UploadContent(upload)),
                         TempOut, UploadContent(upload))
    /\ df' = LoadedTable
    /\ wb' = LoadedWorkbook
    /\ isXlsx' = (LoadExt # ".csv")
    /\ pathIn' = TempIn
    /\ pathOut' = TempOut
    /\ tpc' = "loaded"
    /\ UNCHANGED <<tool, outputName, upload, sheetNumber, inExprs, outExpr, imageMap, ws,
                   curRow, calls, failed, saveFailed, msgs, exc>>
    /\ UNCHANGED <<pkgVars, coordVars, extractVars>>

\* ExcelProcessor.load_file hands the five values of load_file_with_copy on.
LoadFileArity == 5

\* How many names each text tool unpacks the result of load_file into.
UnpackArity(t) == IF t = "single_column_text_analysis" THEN 3 ELSE 4

\* A text tool loads through load_file; unpacking raises ValueError when the
\* counts differ, with both temporary files in place. The single-column tool
\* reports it as a text message, the multi-column tool lets it escape.
LoadUnpackRaises ==
    /\ tpc = "start"
    /\ ~ReadRaises
    /\ tool \in TextTools
    /\ UnpackArity(tool) # LoadFileArity
    /\ temps' = WithFile(WithFile(temps, TempIn, UploadContent(upload)),
                         TempOut, UploadContent(upload))
    /\ IF tool = "single_column_text_analysis"
       THEN /\ msgs' = Append(msgs, TextMessage("load", <<>>))
            /\ exc' = exc
       ELSE /\ exc' = Raised("unpack")
            /\ msgs' = msgs
    /\ tpc' = "returned"
    /\ UNCHANGED <<tool, outputName, upload, sheetNumber, inExprs, outExpr, pathIn, pathOut,
                   df, wb, isXlsx, imageMap, ws, curRow, calls, failed, saveFailed>>
    /\ UNCHANGED <<pkgVars, coordVars, extractVars>>

-----------------------------------------------------------------------------
(* The image analysis tools.                                               *)

MaxRowsOf(t) == Len(t.rows)

InInfos == GetIndicesList(inExprs, MaxRowsOf(df))
OutInfo == ParseRange(outExpr, MaxRowsOf(df))

\* target_rows: the rows of the one clause, or from the least start to the
\* greatest end of all clauses.
FirstTargetRow == Min({InInfos[k].start_row : k \in 1..Len(InInfos)})
LastTargetRow == Max({InInfos[k].end_row : k \in 1..Len(InInfos)})

\* ws: the requested sheet of the workbook, else its active sheet, else None.
PickedWs ==
    IF wb # NoWb /\ sheetNumber <= Len(wb.sheets) THEN sheetNumber
    ELSE IF isXlsx /\ wb # NoWb THEN wb.active
    ELSE 0

\* Both tools call extract_image_map(path_in): the sheet is the default, 1.
DefaultSheet == 1

ImagePrepare ==
    /\ tpc = "loaded"
    /\ tool \in ImageTools
    /\ imageMap' = IF isXlsx
                   THEN ExtractImageMap(temps[pathIn].pkg, LoadExt = ".xlsx",
                                        upload.view, DefaultSheet)
                   ELSE EmptyMap
    /\ IF tool = "single_column_image_analysis" /\ InInfos[1].col_idx >= df.cols
       THEN /\ msgs' = Append(msgs, TextMessage("column", InInfos[1].col_name))
            /\ tpc' = "finally"
            /\ UNCHANGED <<ws, curRow>>
       ELSE /\ ws' = PickedWs
            /\ curRow' = FirstTargetRow
            /\ tpc' = "loop"
            /\ msgs' = msgs
    /\ UNCHANGED <<tool, outputName, upload, sheetNumber, inExprs, outExpr, temps, pathIn,
                   pathOut, df, wb, isXlsx, calls, failed, saveFailed, exc>>
    /\ UNCHANGED <<pkgVars, coordVars, extractVars>>

\* A loop that takes every row to have content.
EveryRowHasContent(i) == TRUE

\* has_content of row i for one clause: an image keyed at the cell, or a
\* cell of the DataFrame whose text is neither empty nor "nan".
InfoHasContent(info, i) ==
    /\ info.start_row <= i
    /\ i <= info.end_row
    /\ \/ <<i, info.col_idx>> \in DOMAIN imageMap
       \/ TableCell(df, i, info.col_idx) # ""

HasContent(i) == \E k \in 1..Len(InInfos) : InfoHasContent(InInfos[k], i)

\* "if not has_content: continue"
RowSkip ==
    /\ tpc = "loop"
    /\ curRow <= LastTargetRow
    /\ ~HasContent(curRow)
    /\ curRow' = curRow + 1
    /\ UNCHANGED <<tool, outputName, upload, sheetNumber, inExprs, outExpr, tpc, temps, pathIn,
                   pathOut, df, wb, isXlsx, imageMap, ws, calls, failed,
                   saveFailed, msgs, exc>>
    /\ UNCHANGED <<pkgVars, coordVars, extractVars>>

\* The except clause around the model call turns a failure into the result.
LLMError == "LLM Error"
ModelAnswer == "answer"

ResultOf(outcome) == IF outcome = "raises" THEN LLMError ELSE ModelAnswer

\* Where a failure of the model call on row i leaves the loop: at row i + 1.
RowAfterStoppingOnFailure(i, outcome, lastRow) ==
    IF outcome = "raises" THEN lastRow + 1 ELSE i + 1

RowAfter(i, outcome, lastRow) == i + 1

\* One row with content: the model is invoked, and its result, or the error
\* text when it raised, goes to the worksheet if there is one, else to the
\* DataFrame.
RowInvoke ==
    /\ tpc = "loop"
    /\ curRow <= LastTargetRow
    /\ HasContent(curRow)
    /\ \E outcome \in {"returns", "raises"} :
          /\ calls' = Append(calls, curRow)
          /\ failed' = IF outcome = "raises" THEN failed \cup {curRow} ELSE failed
          /\ IF ws # 0
             THEN /\ wb' = [wb EXCEPT !.sheets[ws] =
                               SetCell(@, curRow, OutInfo.col_idx, ResultOf(outcome))]
                  /\ df' = df
             ELSE /\ df' = SetCell(df, curRow, OutInfo.col_idx, ResultOf(outcome))
                  /\ wb' = wb
          /\ curRow' = RowAfter(curRow, outcome, LastTargetRow)
    /\ UNCHANGED <<tool, outputName, upload, sheetNumber, inExprs, outExpr, tpc, temps, pathIn,
                   pathOut, isXlsx, imageMap, ws, saveFailed, msgs, exc>>
    /\ UNCHANGED <<pkgVars, coordVars, extractVars>>

\* A save that writes the workbook over the input file.
SaveOverInput(book, files, outputPath, saves) ==
    IF book # NoWb /\ saves THEN WithFile(files, TempIn, SavedContent(book))
    ELSE files

\* ExcelProcessor.save_output_file, then the blob message: a workbook is
\* saved to output_path and a failure of the save is passed over; the bytes
\* of output_path are read and returned. open() raises when no file is there.
SaveOutputFile(book, files, outputPath, saves) ==
    IF book # NoWb /\ saves THEN WithFile(files, outputPath, SavedContent(book))
    ELSE files

ImageSave ==
    /\ tpc = "loop"
    /\ curRow > LastTargetRow
    /\ \E saves \in BOOLEAN :
          /\ wb = NoWb => saves
          /\ temps' = SaveOutputFile(wb, temps, pathOut, saves)
          /\ saveFailed' = ~saves
    /\ IF pathOut \in DOMAIN temps'
       THEN /\ msgs' = Append(msgs, BlobMessage(temps'[pathOut], SaveAs))
            /\ exc' = exc
       ELSE /\ exc' = Raised("open")
            /\ msgs' = msgs
    /\ tpc' = "finally"
    /\ UNCHANGED <<tool, outputName, upload, sheetNumber, inExprs, outExpr, pathIn, pathOut,
                   df, wb, isXlsx, imageMap, ws, curRow, calls, failed>>
    /\ UNCHANGED <<pkgVars, coordVars, extractVars>>

\* finally: ExcelProcessor.clean_paths([path_in, path_out])
Finally ==
    /\ tpc = "finally"
    /\ temps' = CleanPaths(temps, {pathIn, pathOut})
    /\ tpc' = "returned"
    /\ UNCHANGED <<tool, outputName, upload, sheetNumber, inExprs, outExpr, pathIn, pathOut,
                   df, wb, isXlsx, imageMap, ws, curRow, calls, failed,
                   saveFailed, msgs, exc>>
    /\ UNCHANGED <<pkgVars, coordVars, extractVars>>

-----------------------------------------------------------------------------
(* excel_manipulator and chart_generator.                                  *)

\* os.path.splitext(path_out)[0] + ".xlsx": the path itself when the
\* temporary file was made with the suffix .xlsx.
NewPathOut(path, ext) == IF ext = ".xlsx" THEN path ELSE NewOut

\* "if not is_xlsx or wb is None": a new workbook receives the DataFrame, the
\* old path_out is removed and path_out becomes the .xlsx name. Otherwise
\* the manipulator checks the sheet number and takes that sheet; the chart
\* generator takes the active sheet.
WorkbookPrepare ==
    /\ tpc = "loaded"
    /\ tool \in WorkbookTools
    /\ IF ~isXlsx \/ wb = NoWb
       THEN /\ wb' = Workbook(<<df>>)
            /\ temps' = WithoutFiles(temps, {pathOut})
            /\ pathOut' = NewPathOut(pathOut, LoadExt)
            /\ isXlsx' = IF tool = "excel_manipulator" THEN TRUE ELSE isXlsx
            /\ ws' = 1
            /\ tpc' = "plan"
            /\ msgs' = msgs
       ELSE IF tool = "excel_manipulator" /\ sheetNumber > Len(wb.sheets)
       THEN /\ msgs' = Append(msgs, TextMessage("sheet", <<sheetNumber>>))
            /\ tpc' = "finally"
            /\ UNCHANGED <<wb, temps, pathOut, isXlsx, ws>>
       ELSE /\ ws' = IF tool = "excel_manipulator" THEN sheetNumber ELSE wb.active
            /\ tpc' = "plan"
            /\ UNCHANGED <<wb, temps, pathOut, isXlsx, msgs>>
    /\ UNCHANGED <<tool, outputName, upload, sheetNumber, inExprs, outExpr, pathIn, df,
                   imageMap, curRow, calls, failed, saveFailed, exc>>
    /\ UNCHANGED <<pkgVars, coordVars, extractVars>>

\* A DataFrame process_data may return: the table, or the table with one
\* more column.
AddColumn(t) == Table(t.cols + 1, [r \in 1..Len(t.rows) |-> Append(t.rows[r], "new")])

\* The model call raises: a text message, then return.
PlanModelRaises ==
    /\ tpc = "plan"
    /\ calls' = Append(calls, 0)
    /\ failed' = failed \cup {0}
    /\ msgs' = Append(msgs, TextMessage("ai", <<>>))
    /\ tpc' = "finally"
    /\ UNCHANGED <<tool, outputName, upload, sheetNumber, inExprs, outExpr, temps, pathIn,
                   pathOut, df, wb, isXlsx, imageMap, ws, curRow, saveFailed, exc>>
    /\ UNCHANGED <<pkgVars, coordVars, extractVars>>

\* The answer cannot be used (the generated code raises, the chart plan is
\* no JSON): a text message, then return.
PlanRejected ==
    /\ tpc = "plan"
    /\ calls' = Append(calls, 0)
    /\ msgs' = Append(msgs, TextMessage("plan", <<>>))
    /\ tpc' = "finally"
    /\ UNCHANGED <<tool, outputName, upload, sheetNumber, inExprs, outExpr, temps, pathIn,
                   pathOut, df, wb, isXlsx, imageMap, ws, curRow, failed,
                   saveFailed, exc>>
    /\ UNCHANGED <<pkgVars, coordVars, extractVars>>

\* The manipulator replaces the rows of the target sheet by the new
\* DataFrame; the chart generator adds a chart and leaves the grid alone.
PlanApplied ==
    /\ tpc = "plan"
    /\ calls' = Append(calls, 0)
    /\ IF tool = "excel_manipulator"
       THEN \E newDf \in {df, AddColumn(df)} : wb' = [wb EXCEPT !.sheets[ws] = newDf]
       ELSE wb' = wb
    /\ tpc' = "save"
    /\ UNCHANGED <<tool, outputName, upload, sheetNumber, inExprs, outExpr, temps, pathIn,
                   pathOut, df, isXlsx, imageMap, ws, curRow, failed, saveFailed,
                   msgs, exc>>
    /\ UNCHANGED <<pkgVars, coordVars, extractVars>>

\* The manipulator saves through save_output_file; the chart generator calls
\* wb.save itself, outside any try block.
WorkbookSave ==
    /\ tpc = "save"
    /\ \E saves \in BOOLEAN :
          /\ temps' = SaveOutputFile(wb, temps, pathOut, saves)
          /\ saveFailed' = ~saves
          /\ IF tool = "chart_generator" /\ ~saves
             THEN /\ exc' = Raised("save")
                  /\ msgs' = msgs
             ELSE IF pathOut \in DOMAIN temps'
             THEN /\ msgs' = Append(Append(msgs, TextMessage("done", <<>>)),
                                    BlobMessage(temps'[pathOut], SaveAs))
                  /\ exc' = exc
             ELSE /\ exc' = Raised("open")
                  /\ msgs' = msgs
    /\ tpc' = "finally"
    /\ UNCHANGED <<tool, outputName, upload, sheetNumber, inExprs, outExpr, pathIn, pathOut,
                   df, wb, isXlsx, imageMap, ws, curRow, calls, failed>>
    /\ UNCHANGED <<pkgVars, coordVars, extractVars>>

NextTool ==
    \/ LoadRaises
    \/ LoadReturns
    \/ LoadUnpackRaises
    \/ ImagePrepare
    \/ RowSkip
    \/ RowInvoke
    \/ ImageSave
    \/ WorkbookPrepare
    \/ PlanModelRaises
    \/ PlanRejected
    \/ PlanApplied
    \/ WorkbookSave
    \/ Finally

SpecTool == InitTool /\ [][NextTool]_vars

-----------------------------------------------------------------------------
(* Claims about one invocation of a tool.                                  *)

Ended == tpc = "returned"

Blobs == SelectSeq(msgs, LAMBDA m : m.type = "blob")

\* The output cell of row i: in the worksheet when there is one, else in
\* the DataFrame.
OutputCell(i) ==
    IF ws # 0 THEN TableCell(wb.sheets[ws], i, OutInfo.col_idx)
    ELSE TableCell(df, i, OutInfo.col_idx)

\* The table of the loaded sheet inside the bytes of a file.
TableInBytes(data) ==
    IF data.tables = <<>> THEN NoTable
    ELSE IF LoadExt = ".csv" THEN data.tables[1]
    ELSE data.tables[LoadedSheet]

\* C5: when an image tool ran without a workbook (CSV input, or the
\* workbook did not load), every value written into the DataFrame during
\* row processing is in the bytes of the emitted output file.
C5_TableMutationsInOutput ==
    (Ended /\ tool \in ImageTools /\ wb = NoWb /\ Blobs # <<>>) =>
        \A k \in 1..Len(calls) :
            TableCell(TableInBytes(Blobs[1].data), calls[k], OutInfo.col_idx)
                = TableCell(df, calls[k], OutInfo.col_idx)

\* C6: a text-analysis invocation on a loadable CSV with columns Name and
\* Score and output column C2 gets past the load step, calls the model once
\* for every row with a non-empty Name, and emits one output file whose
\* column C holds the results and whose columns A and B are unchanged.
C6_CsvTextAnalysisEndToEnd ==
    (Ended /\ tool \in TextTools /\ LoadExt = ".csv" /\ upload.readable) =>
        /\ ~exc.raised
        /\ \A k \in 1..Len(msgs) : msgs[k].about # "load"
        /\ Len(Blobs) = 1
        /\ LET before == upload.tables[1]
               after == TableInBytes(Blobs[1].data)
           IN  \A i \in 0..(Len(before.rows) - 1) :
                  /\ TableCell(after, i, 0) = TableCell(before, i, 0)
                  /\ TableCell(after, i, 1) = TableCell(before, i, 1)
                  /\ TableCell(before, i, 0) # "" =>
                        /\ Cardinality({k \in 1..Len(calls) : calls[k] = i}) = 1
                        /\ TableCell(after, i, 2) = ModelAnswer

\* C7: when an invocation has returned, on whatever path, none of the
\* temporary files it created through the loader exists any more.
C7_NoTempFileRemains == Ended => DOMAIN temps = {}

C9_FailedSavePropagates == (Ended /\ saveFailed) => (exc.raised /\ Blobs = <<>>)

BadSheet == LoadExt # ".csv" /\ sheetNumber > Len(upload.tables)

BadColumn ==
    /\ ~BadSheet
    /\ \E k \in 1..Len(inExprs) : ParseRange(inExprs[k], 0).col_idx >= LoadedTable.cols

NamesOffender ==
    \/ \E k \in 1..Len(msgs) : msgs[k].type = "text" /\ msgs[k].about \in {"column", "sheet"}
    \/ exc.raised /\ exc.about = "sheet"

\* C10: in an analysis tool, when an input column index is not less than
\* the column count of the table, or the sheet number exceeds the sheet
\* count, the invocation reports an error naming the column or the sheet,
\* makes no model call and emits no output file.
C10_OutOfRangeIsReported ==
    (Ended /\ tool \in ImageTools \cup TextTools /\ upload.readable
       /\ (BadSheet \/ BadColumn)) =>
        /\ NamesOffender
        /\ calls = <<>>
        /\ Blobs = <<>>

-----------------------------------------------------------------------------
(* Coordinate expressions as text: a text is a sequence of characters.     *)

Alphabet == <<"A", "B", "C", "D", "E", "F", "G", "H", "I", "J", "K", "L", "M",
              "N", "O", "P", "Q", "R", "S", "T", "U", "V", "W", "X", "Y", "Z">>
LowerAlphabet == <<"a", "b", "c", "d", "e", "f", "g", "h", "i", "j", "k", "l", "m",
                   "n", "o", "p", "q", "r", "s", "t", "u", "v", "w", "x", "y", "z">>
DigitChars == <<"0", "1", "2", "3", "4", "5", "6", "7", "8", "9">>

Colon == ":"
WideColon == "fullwidth:"
Comma == ","
WideComma == "fullwidth,"
IndexOf(chars, ch) == CHOOSE i \in 1..Len(chars) : chars[i] = ch

\* str.upper() and str.replace(old, new) for one character.
UpperText(s) ==
    [i \in 1..Len(s) |->
        IF s[i] \in Range(LowerAlphabet) THEN Alphabet[IndexOf(LowerAlphabet, s[i])]
        ELSE s[i]]

ReplaceChar(s, old, new) == [i \in 1..Len(s) |-> IF s[i] = old THEN new ELSE s[i]]

\* str.split(sep): the pieces between the separators, empty pieces kept.
RECURSIVE SplitText(_, _)
SplitText(s, sep) ==
    IF sep \notin Range(s) THEN <<s>>
    ELSE LET i == Min({k \in 1..Len(s) : s[k] = sep})
         IN  <<SubSeq(s, 1, i - 1)>> \o SplitText(SubSeq(s, i + 1, Len(s)), sep)

\* How many leading characters of s are in the class.
LeadLen(s, class) == Max({n \in 0..Len(s) : \A i \in 1..n : s[i] \in class})

\* re.match(r"([A-Z]+)([0-9]+)", s): letters, then digits, from the start of
\* s; what follows the digits is not looked at.
MatchCell(s) ==
    LET nl == LeadLen(s, Range(Alphabet))
        rest == SubSeq(s, nl + 1, Len(s))
        nd == LeadLen(rest, Range(DigitChars))
    IN  [ok |-> nl >= 1 /\ nd >= 1,
         letters |-> SubSeq(s, 1, nl),
         digits |-> SubSeq(rest, 1, nd),
         tail |-> SubSeq(rest, nd + 1, Len(rest))]

\* int(r_num)
RECURSIVE IntOf(_)
IntOf(digits) ==
    IF digits = <<>> THEN 0
    ELSE IntOf(SubSeq(digits, 1, Len(digits) - 1)) * 10
            + (IndexOf(DigitChars, Last(digits)) - 1)

\* "for char in c_str: c_idx = c_idx * 26 + (ord(char) - ord('A')) + 1"
DecodeColumn(letters) ==
    LetterToCol([i \in 1..Len(letters) |-> IndexOf(Alphabet, letters[i])])

\* The inner function parse of parse_range, one row short of the source.
ParseOneRowShort(s) ==
    LET m == MatchCell(s)
    IN  IF ~m.ok THEN <<0, 0>>
        ELSE <<DecodeColumn(m.letters) - 1,
               IF IntOf(m.digits) - 1 > 0 THEN IntOf(m.digits) - 1 ELSE 0>>

\* The inner function parse of parse_range: (0, 0) when the text does not
\* match, else the 0-based column and max(0, row - 2).
Parse(s) ==
    LET m == MatchCell(s)
    IN  IF ~m.ok THEN <<0, 0>>
        ELSE <<DecodeColumn(m.letters) - 1,
               IF IntOf(m.digits) - 2 > 0 THEN IntOf(m.digits) - 2 ELSE 0>>

\* ExcelProcessor.parse_range on the text of an expression.
ParseRangeText(s, maxRows) ==
    LET parts == SplitText(ReplaceChar(StripText(UpperText(s)), WideColon, Colon), Colon)
        first == Parse(parts[1])
        er == IF Len(parts) > 1 THEN Parse(parts[2])[2] ELSE maxRows - 1
    IN  [kind |-> "range",
         col_idx |-> first[1],
         start_row |-> first[2],
         end_row |-> IF er < maxRows - 1 THEN er ELSE maxRows - 1,
         col_name |-> SubSeq(parts[1], 1, LeadLen(parts[1], Range(Alphabet)))]

\* re.match(r'^[A-Z]+[0-9]+(:[A-Z]+[0-9]+)?$', s)
MatchesClause(s) ==
    LET parts == SplitText(s, Colon)
    IN  /\ Len(parts) \in {1, 2}
        /\ \A k \in 1..Len(parts) : MatchCell(parts[k]).ok /\ MatchCell(parts[k]).tail = <<>>

Verdict(ok, msg) == [kind |-> "verdict", ok |-> ok, msg |-> msg]

\* The checks of validate_coord_format on one clause, in the order of the
\* loop body.
ClauseVerdict(part, single) ==
    IF ~MatchesClause(StripText(part)) THEN Verdict(FALSE, "Invalid coords")
    ELSE IF single /\ Colon \in Range(part)
              /\ SplitText(part, Colon)[1][1] # SplitText(part, Colon)[2][1]
    THEN Verdict(FALSE, "Single col tool cannot span columns.")
    ELSE Verdict(TRUE, "")

\* The normalisation without the replacement of the fullwidth comma.
NormalizeCoordAsciiOnly(s) == ReplaceChar(UpperText(StripText(s)), WideColon, Colon)

\* The normalisation at the head of validate_coord_format.
NormalizeCoord(s) ==
    ReplaceChar(ReplaceChar(UpperText(StripText(s)), WideColon, Colon), WideComma, Comma)

\* ExcelProcessor.validate_coord_format: the verdict of the first clause
\* that fails, else ok.
ValidateCoordFormat(s, single) ==
    IF s = <<>> \/ StripText(s) = <<>> THEN Verdict(FALSE, "Column cannot be empty.")
    ELSE LET coord == NormalizeCoord(s)
             parts == SplitText(coord, Comma)
             bad == {k \in 1..Len(parts) : ~ClauseVerdict(parts[k], single).ok}
         IN  IF single /\ Comma \in Range(coord)
             THEN Verdict(FALSE, "Single column tool does not support multiple columns.")
             ELSE IF bad # {} THEN ClauseVerdict(parts[Min(bad)], single)
             ELSE Verdict(TRUE, "")

-----------------------------------------------------------------------------
(* Calls of the coordinate functions on texts drawn from bounded sets.     *)

MaxDataRows == 3    \* the greatest max_rows handed to parse_range
MaxColNo == 53      \* the greatest column number encoded: 53 is BA

ColText(c) == [i \in 1..Len(ColToLetter(c)) |-> Alphabet[ColToLetter(c)[i]]]

RECURSIVE RowText(_)
RowText(n) ==
    IF n < 10 THEN <<DigitChars[n + 1]>>
    ELSE RowText(n \div 10) \o <<DigitChars[(n % 10) + 1]>>

CoordText(c, r) == ColText(c) \o RowText(r)

LowerText(s) ==
    [i \in 1..Len(s) |->
        IF s[i] \in Range(Alphabet) THEN LowerAlphabet[IndexOf(Alphabet, s[i])]
        ELSE s[i]]

\* A clause text together with what it was built from: whether it follows
\* the grammar <Letters><Digits>[:<Letters><Digits>], and its column
\* numbers and row numbers.
Clause(s, valid, isRange, c, r, c2, r2) ==
    [s |-> s, valid |-> valid, isRange |-> isRange,
     col |-> c, row |-> r, col2 |-> c2, row2 |-> r2]

ColsUsed == {1, 2, 26, 27, 28, 52, 53}      \* A B Z AA AB AZ BA
RangeCols == {1, 2, 27, 28}                 \* A B AA AB
RowNos == {1, 2, 3, 5, 10}

CellClauses ==
    {Clause(CoordText(c, r), TRUE, FALSE, c, r, c, r) : c \in ColsUsed, r \in RowNos}
    \cup {Clause(LowerText(CoordText(c, r)), TRUE, FALSE, c, r, c, r) :
             c \in ColsUsed, r \in RowNos}

RangeClauses ==
    {Clause(CoordText(c, r) \o <<colon>> \o CoordText(c2, r2), TRUE, TRUE, c, r, c2, r2) :
        c \in RangeCols, r \in RowNos, c2 \in RangeCols, r2 \in RowNos,
        colon \in {Colon, WideColon}}

\* Texts outside the grammar: a bare column, a bare number, the empty
\* text, junk before or after a cell, a range with a missing side.
MalformedTexts ==
    {<<"H">>, <<"A", "B">>, <<"2">>, <<>>, <<"#">>, <<"A", "2", "#">>,
     <<"#", "A", "2">>, <<"2", "A">>, <<"A", "2", Colon>>, <<Colon, "A", "2">>,
     <<"A", "2", Colon, "B">>, <<"A", Colon, "2">>,
     <<"A", "2", Colon, "A", "5", Colon, "A", "7">>}

BadClauses == {Clause(t, FALSE, FALSE, 0, 0, 0, 0) : t \in MalformedTexts}

Clauses == CellClauses \cup RangeClauses \cup BadClauses

\* The clauses that are joined into lists of two.
ListClauses ==
    {cl \in Clauses :
        \/ cl.s \in {CoordText(1, 2), LowerText(CoordText(2, 2)), <<"H">>}
        \/ cl.s \in {CoordText(2, 2) \o <<Colon>> \o CoordText(2, 5),
                     CoordText(1, 2) \o <<Colon>> \o CoordText(2, 5),
                     CoordText(27, 2) \o <<WideColon>> \o CoordText(28, 5)}}

Separators == {<<Comma>>, <<WideComma>>, <<Comma, Space>>}

Arg(clause, valid, maxRows, single) ==
    [clause |-> clause, valid |-> valid, maxRows |-> maxRows, single |-> single]

\* A list of two clauses keeps the numbers of its first clause.
Joined(a, sep, b) == [a EXCEPT !.s = a.s \o sep \o b.s, !.valid = a.valid /\ b.valid]

ParseRangeArgs ==
    {Arg(cl, cl.valid, n, FALSE) : cl \in Clauses, n \in 0..MaxDataRows}

ValidateArgs ==
    {Arg(cl, cl.valid, 0, single) : cl \in Clauses, single \in BOOLEAN}
    \cup {Arg(Joined(a, sep, b), a.valid /\ b.valid, 0, single) :
             a \in ListClauses, b \in ListClauses, sep \in Separators,
             single \in BOOLEAN}
    \cup {Arg(Clause(t, FALSE, FALSE, 0, 0, 0, 0), FALSE, 0, single) :
             t \in {<<Space>>, <<Comma>>, <<WideComma>>, <<"A", "2", Comma>>},
             single \in BOOLEAN}

ColumnArgs ==
    {Arg(Clause(<<>>, TRUE, FALSE, c, 2, c, 2), TRUE, 0, FALSE) : c \in 1..MaxColNo}

InitCoord ==
    /\ PkgIdle
    /\ ToolIdle
    /\ ExtractIdle
    /\ fn \in {"parse_range", "validate_coord_format", "_col_to_letter"}
    /\ arg \in (CASE fn = "parse_range" -> ParseRangeArgs
                  [] fn = "validate_coord_format" -> ValidateArgs
                  [] OTHER -> ColumnArgs)
    /\ out = NoOut
    /\ cpc = "call"

CallParseRange ==
    /\ cpc = "call"
    /\ fn = "parse_range"
    /\ out' = ParseRangeText(arg.clause.s, arg.maxRows)
    /\ cpc' = "done"
    /\ UNCHANGED <<fn, arg, pkgVars, toolVars, extractVars>>

CallValidateCoordFormat ==
    /\ cpc = "call"
    /\ fn = "validate_coord_format"
    /\ out' = ValidateCoordFormat(arg.clause.s, arg.single)
    /\ cpc' = "done"
    /\ UNCHANGED <<fn, arg, pkgVars, toolVars, extractVars>>

\* _col_to_letter(col), as the characters it returns.
CallColToLetter ==
    /\ cpc = "call"
    /\ fn = "_col_to_letter"
    /\ out' = [kind |-> "letters", letters |-> ColText(arg.clause.col)]
    /\ cpc' = "encoded"
    /\ UNCHANGED <<fn, arg, pkgVars, toolVars, extractVars>>

\* Both decoders on the letters, followed by a row number: parse_range and
\* _cell_ref_to_pd_indices.
CallDecoders ==
    /\ cpc = "encoded"
    /\ out' = [kind |-> "indices",
               letters |-> out.letters,
               viaParseRange |-> ParseRangeText(out.letters \o RowText(2), 1).col_idx,
               viaCellRef |-> CellRefToPdIndices(
                                  CellRef([i \in 1..Len(out.letters) |->
                                              IndexOf(Alphabet, out.letters[i])], 2))]
    /\ cpc' = "done"
    /\ UNCHANGED <<fn, arg, pkgVars, toolVars, extractVars>>

NextCoord ==
    \/ CallParseRange
    \/ CallValidateCoordFormat
    \/ CallColToLetter
    \/ CallDecoders

SpecCoord == InitCoord /\ [][NextCoord]_vars

-----------------------------------------------------------------------------
(* Claims about the coordinate functions.                                  *)

Returned(name) == cpc = "done" /\ fn = name

HasComma(s) == Comma \in Range(s) \/ WideComma \in Range(s)

\* The value of column letters in bijective base 26: A = 1 ... Z = 26,
\* AA = 27, each place worth 26 times the place to its right.
RECURSIVE PlaceValue(_)
PlaceValue(k) == IF k = 0 THEN 1 ELSE AlphabetSize * PlaceValue(k - 1)

RECURSIVE SumOver(_, _)
SumOver(f, S) ==
    IF S = {} THEN 0
    ELSE LET x == CHOOSE y \in S : TRUE IN f[x] + SumOver(f, S \ {x})

BijectiveValue(letters) ==
    SumOver([i \in 1..Len(letters) |->
                IndexOf(Alphabet, letters[i]) * PlaceValue(Len(letters) - i)],
            1..Len(letters))

LettersOf(s) == SubSeq(UpperText(s), 1, LeadLen(UpperText(s), Range(Alphabet)))

\* C11: parse_range on a text that does not follow the clause grammar
\* fails with a format error; it does not return a range.
C11_MalformedIsAnError ==
    (Returned("parse_range") /\ ~arg.valid) => out.kind = "error"

\* C12: for a text that follows the grammar and max_rows >= 1, the range
\* parse_range returns has end_row >= start_row.
C12_EndNotBeforeStart ==
    (Returned("parse_range") /\ arg.valid /\ arg.maxRows >= 1) =>
        out.end_row >= out.start_row

\* C13: for a single cell <Col><Row> with Row >= 2 and any max_rows,
\* parse_range returns start_row = Row - 2, end_row = max_rows - 1 and
\* col_idx = the bijective base-26 value of Col, minus 1.
C13_SingleCellRange ==
    (Returned("parse_range") /\ arg.valid /\ ~arg.clause.isRange
       /\ arg.clause.row >= 2) =>
        /\ out.kind = "range"
        /\ out.start_row = arg.clause.row - 2
        /\ out.end_row = arg.maxRows - 1
        /\ out.col_idx = BijectiveValue(LettersOf(arg.clause.s)) - 1

\* parse_range has returned for AB10 with three data rows.
C13_Witness ==
    /\ Returned("parse_range")
    /\ arg.clause.s = <<"A", "B", "1", "0">>
    /\ arg.maxRows = 3
    /\ out.col_idx = 27
    /\ out.start_row = 8

\* C14: for every column number i, the letters of _col_to_letter(i) are
\* decoded to i - 1 by parse_range and by _cell_ref_to_pd_indices.
C14_ColumnLettersRoundTrip ==
    Returned("_col_to_letter") =>
        /\ out.viaParseRange = arg.clause.col - 1
        /\ out.viaCellRef # <<>>
        /\ out.viaCellRef[1][2] = arg.clause.col - 1

\* Column 53 was encoded as BA and decoded again.
C14_Witness ==
    /\ Returned("_col_to_letter")
    /\ arg.clause.col = 53
    /\ out.letters = <<"B", "A">>
    /\ out.viaParseRange = 52

\* C15: with is_single_col_tool, validate_coord_format rejects a range
\* whose start and end column letters differ and accepts a range whose
\* start and end column letters are the same.
C15_SingleColumnRanges ==
    (Returned("validate_coord_format") /\ arg.single /\ arg.valid
       /\ arg.clause.isRange /\ ~HasComma(arg.clause.s)) =>
        (out.ok <=> arg.clause.col = arg.clause.col2)

\* C16: validate_coord_format rejects every text with a comma, ASCII or
\* fullwidth, when is_single_col_tool is set, and accepts a comma-separated
\* list of clauses that follow the grammar when it is not set.
C16_CommaLists ==
    Returned("validate_coord_format") =>
        /\ (arg.single /\ HasComma(arg.clause.s)) => ~out.ok
        /\ (~arg.single /\ arg.valid) => out.ok

\* A list of two clauses joined by a fullwidth comma was accepted for a
\* multi-column tool.
C16_Witness ==
    /\ Returned("validate_coord_format")
    /\ ~arg.single
    /\ arg.valid
    /\ WideComma \in Range(arg.clause.s)
    /\ out.ok

-----------------------------------------------------------------------------
(* Claims about file names and sheet selection in a tool invocation.       *)

\* The file has names, and none of them ends in a supported extension.
UnsupportedName ==
    /\ upload.names # <<>>
    /\ \A k \in 1..Len(upload.names) : upload.names[k].ext \notin SupportedExts

\* C17: the loader given a file whose name has an extension other than the
\* supported ones ends with an unsupported-format error and never parses
\* the file under a substituted default name.
C17_UnsupportedExtensionIsFatal ==
    (tpc # "start" /\ UnsupportedName) =>
        /\ exc.raised
        /\ exc.about = "unsupported"
        /\ df = NoTable

\* C18: for a package with k sheets and a sheet number s > k, loading does
\* not fail; the table, the image extraction and the worksheet written to
\* are those of the first sheet.
C18_SheetFallsBackToFirst ==
    (tool \in ImageTools /\ upload.readable /\ BadSheet /\ tpc # "start") =>
        /\ ~exc.raised
        /\ tpc = "loaded" => df = upload.tables[1]
        /\ tpc = "loop" => (wb # NoWb => ws = 1)

\* C19: every tool that emits an output file names it smart_<base name of
\* the original file>.xlsx when the caller gave no name (absent, empty or
\* blank), and <the name, stripped>.xlsx when the caller gave one.
C19_OutputFileName ==
    (Ended /\ Blobs # <<>>) =>
        Blobs[1].save_as =
            IF IsBlank(outputName)
            THEN OutName("smart_", <<OriginName.stem>>, ".xlsx")
            ELSE OutName("", StripText(outputName.chars), ".xlsx")

-----------------------------------------------------------------------------
(* ExcelProcessor.extract_image_map as a call that may raise.  Each pass   *)
(* yields whether it raised and the entries it added; the handlers of      *)
(* extract_image_map decide what leaves the call.                          *)

\* A member of the archive whose bytes cannot be read: zf.read raises.
CorruptBody == [kind |-> "corrupt", ok |-> FALSE]

PassResult(raised, entries) == [raised |-> raised, entries |-> entries]

\* Lines 116-194: load_workbook raising is an exception inside the try;
\* every image is handled in a try / except of its own.
ObjectModelPass(view, n) ==
    PassResult(~view.loads, ObjectModelEntries(view, n))

\* Lines 228 and 531: "sheet_xml = zf.read(sheet_path)" stands
\* before the first try of either package pass.
SheetReadRaises(file, n) ==
    /\ file.exists
    /\ file.zip
    /\ SheetPath(n) \in Names(file)
    /\ ReadPart(file, SheetPath(n)).kind = "corrupt"

\* Lines 521-625
DrawingPass(file, n) ==
    IF SheetReadRaises(file, n) THEN PassResult(TRUE, <<>>)
    ELSE PassResult(FALSE, ExtractDrawingImagesMap(file, n))

\* Lines 218-309
CellImagesPass(file, n) ==
    IF SheetReadRaises(file, n) THEN PassResult(TRUE, <<>>)
    ELSE PassResult(FALSE, ExtractCellImagesMap(file, n))

\* A pass whose exception is left to propagate.
Uncaught(result) == result

\* Lines 193-194, 202-203 and 210-211: "except Exception" around each pass;
\* what the pass added before it raised stays in the map.
Caught(result) == PassResult(FALSE, result.entries)

\* Lines 107-215: whether the call raised, and the map it returned.
ExtractImageMapCall(file, isXlsxName, view, n) ==
    IF ~file.exists \/ ~isXlsxName
    THEN [raised |-> FALSE, map |-> EmptyMap]
    ELSE LET p1 == Caught(ObjectModelPass(view, n))
             p2 == Caught(DrawingPass(file, n))
             p3 == Caught(CellImagesPass(file, n))
             raised == p1.raised \/ p2.raised \/ p3.raised
         IN  [raised |-> raised,
              map |-> IF raised THEN EmptyMap
                      ELSE MapOf(EmptyMap,
                                 p1.entries \o p2.entries \o p3.entries)]

-----------------------------------------------------------------------------
(* Packages with two images on sheet 1: image A in row 3, which may be     *)
(* unreadable, and image B in row 4, which is intact.                      *)

ImageA == MediaBody("img1")
ImageB == MediaBody("img5")
AnchorA == <<2, 0>>
AnchorB == <<3, 0>>

\* mechA, mechB: how each image is stored; failure: what is wrong with A
\* ("missing": its media part is absent, "metafile": it is an .emf,
\* "norel": its relationship is absent, "accessor": reading its ref stream
\* through the object model raises, "emptyref": its ref stream yields no
\* bytes); fallback: the other accessor of the image object that would
\* yield the bytes of A; sheet: whether the sheet part can be read.
RefFailures == {"accessor", "emptyref"}

PairScenarios ==
    {sc \in [mechA : {"drawing", "cellimage"}, mechB : {"drawing", "cellimage"},
             failure : {"none", "missing", "metafile", "norel"} \cup RefFailures,
             fallback : {"none", "fp", "data"},
             style : {"part", "rels"}, objModel : {"ok", "fails"},
             sheet : {"ok", "corrupt"}] :
        /\ sc.failure \in RefFailures => (sc.mechA = "drawing" /\ sc.objModel = "ok")
        /\ sc.fallback # "none" => sc.failure \in RefFailures}

NameOfA(sc) == IF sc.failure = "metafile" THEN "image2.emf" ELSE "image1.png"

\* The embed relationships of the part that holds the images of mechanism m.
PairEmbedRels(sc, m, prefix) ==
    (IF sc.mechA = m /\ sc.failure # "norel"
     THEN <<Rel("rId1", TargetFrom(sc.style, prefix \o <<"media", NameOfA(sc)>>))>>
     ELSE <<>>)
    \o (IF sc.mechB = m
        THEN <<Rel("rId2", TargetFrom(sc.style, prefix \o <<"media", "image5.png">>))>>
        ELSE <<>>)

PairAnchors(sc) ==
    (IF sc.mechA = "drawing" THEN <<Anchor(AnchorA, "rId1")>> ELSE <<>>)
    \o (IF sc.mechB = "drawing" THEN <<Anchor(AnchorB, "rId2")>> ELSE <<>>)

PairItem(anchor, rid) ==
    [ref |-> CellRef(ColA, anchor[1] + 1), marker |-> <<>>, embed |-> rid,
     nest |-> BlipDepth]

PairItems(sc) ==
    (IF sc.mechA = "cellimage" THEN <<PairItem(AnchorA, "rId1")>> ELSE <<>>)
    \o (IF sc.mechB = "cellimage" THEN <<PairItem(AnchorB, "rId2")>> ELSE <<>>)

PairUses(sc, m) == sc.mechA = m \/ sc.mechB = m

PairSheetRels(sc) ==
    (IF PairUses(sc, "drawing")
     THEN <<Rel("rId1", TargetFrom(sc.style, <<Up, "drawings", "drawing1.xml">>))>>
     ELSE <<>>)
    \o (IF PairUses(sc, "cellimage")
        THEN <<Rel("rId2", TargetFrom(sc.style, <<Up, "cellimages.xml">>))>>
        ELSE <<>>)

PairParts(sc) ==
    <<Part(SheetPath(1),
           IF sc.sheet = "corrupt" THEN CorruptBody
           ELSE SheetBody([r \in 1..4 |-> Row(r, <<TextCell(ColA, r, "t")>>)],
                          IF PairUses(sc, "drawing") THEN <<"rId1">> ELSE <<>>,
                          <<>>)),
      Part(SheetRelsPath(1), RelsBody(PairSheetRels(sc))),
      Part(<<"xl", "media", "image5.png">>, ImageB)>>
    \o (IF sc.failure = "missing" THEN <<>>
        ELSE <<Part(<<"xl", "media", NameOfA(sc)>>, ImageA)>>)
    \o (IF PairUses(sc, "drawing")
        THEN <<Part(DrawingPath, DrawingBody(PairAnchors(sc))),
               Part(RelsForPart(DrawingPath),
                    RelsBody(PairEmbedRels(sc, "drawing", <<Up>>)))>>
        ELSE <<>>)
    \o (IF PairUses(sc, "cellimage")
        THEN <<Part(CellImagesPath, CellImagesBody(PairItems(sc))),
               Part(RelsForPart(CellImagesPath),
                    RelsBody(PairEmbedRels(sc, "cellimage", <<>>)))>>
        ELSE <<>>)

PairFile(sc) == ZipFile(FixedParts \o PairParts(sc))

\* What load_workbook makes of the package: the drawing anchors whose
\* picture it could load become images of the worksheet object.
PairView(sc) ==
    [loads |-> sc.objModel = "ok",
     active |-> 1,
     sheets |-> <<(IF sc.mechA = "drawing" /\ sc.failure \in {"none"} \cup RefFailures
                   THEN <<ImageObject(AnchorA,
                                      Accessor(TRUE, sc.failure = "accessor",
                                               IF sc.failure = "emptyref"
                                               THEN MediaBody("") ELSE ImageA),
                                      IF sc.fallback = "fp"
                                      THEN Accessor(TRUE, FALSE, ImageA)
                                      ELSE NoAccessor,
                                      IF sc.fallback = "data"
                                      THEN Accessor(TRUE, FALSE, ImageA)
                                      ELSE NoAccessor,
                                      "png")>>
                   ELSE <<>>)
                  \o (IF sc.mechB = "drawing"
                      THEN <<ImageObject(AnchorB, Accessor(TRUE, FALSE, ImageB),
                                         NoAccessor, NoAccessor, "png")>>
                      ELSE <<>>)>>]

\* One call: the file at the path (NoFile when nothing is there), whether
\* the path ends in .xlsx, the workbook view, the sheet number, and how the
\* package was built (never read by the program).
ExIn(file, isXlsxName, view, n, sc) ==
    [kind |-> "call", file |-> file, isXlsxName |-> isXlsxName, view |-> view,
     n |-> n, scenario |-> sc]

ExtractInputs ==
    {ExIn(IF there THEN PairFile(sc) ELSE NoFile, isXlsxName, PairView(sc), n, sc) :
        sc \in PairScenarios, there \in BOOLEAN, isXlsxName \in BOOLEAN,
        n \in 1..MaxSheet}

InitExtract ==
    /\ PkgIdle
    /\ ToolIdle
    /\ CoordIdle
    /\ exIn \in ExtractInputs
    /\ exOut = NoExOut
    /\ epc = "call"

CallExtractImageMap ==
    /\ epc = "call"
    /\ exOut' = ExtractImageMapCall(exIn.file, exIn.isXlsxName, exIn.view, exIn.n)
    /\ epc' = "done"
    /\ UNCHANGED <<exIn, pkgVars, toolVars, coordVars>>

NextExtract == CallExtractImageMap

SpecExtract == InitExtract /\ [][NextExtract]_vars

\* The same package with image A intact.
Intact(sc) == [sc EXCEPT !.failure = "none", !.fallback = "none"]

IntactMap ==
    ExtractImageMap(IF exIn.file.exists THEN PairFile(Intact(exIn.scenario))
                    ELSE NoFile,
                    exIn.isXlsxName, PairView(Intact(exIn.scenario)), exIn.n)

IsImageB(uri) == uri.data = ImageB

HoldsB(m, key) ==
    key \in DOMAIN m /\ \E i \in 1..Len(m[key]) : IsImageB(m[key][i])

TimesB(m, key) ==
    IF key \in DOMAIN m
    THEN Cardinality({i \in 1..Len(m[key]) : IsImageB(m[key][i])})
    ELSE 0

\* C20: extract_image_map never raises, whatever the path and the sheet
\* number; and where image A cannot be read or decoded, image B is returned
\* at every key, and as many times, as it is when A is intact -- from the
\* pass that skipped A and from the other passes, also when the
\* object-model pass failed as a whole.
C20_ExtractIsolatesFailures ==
    epc = "done" =>
        /\ ~exOut.raised
        /\ exOut.map = ExtractImageMap(exIn.file, exIn.isXlsxName, exIn.view,
                                       exIn.n)
        /\ \A key \in DOMAIN IntactMap \cup DOMAIN exOut.map :
               TimesB(exOut.map, key) = TimesB(IntactMap, key)

\* C20 witness: the object-model pass failed as a whole, image A is
\* unreadable in the package as well, and image B is in the returned map.
C20_Witness ==
    /\ epc = "done"
    /\ exIn.scenario.objModel = "fails"
    /\ exIn.scenario.failure \in {"missing", "metafile", "norel"}
    /\ exIn.scenario.mechA = exIn.scenario.mechB
    /\ ~exOut.raised
    /\ \E key \in DOMAIN exOut.map : HoldsB(exOut.map, key)

IsImageA(uri) == uri.data = ImageA

TimesA(m, key) ==
    IF key \in DOMAIN m
    THEN Cardinality({i \in 1..Len(m[key]) : IsImageA(m[key][i])})
    ELSE 0

\* C25: in the object-model pass the accessors ref, fp and _data are tried
\* in that order until one yields bytes: an image whose ref stream raises
\* or is empty, and whose fp handle or _data closure yields its bytes, is
\* returned as it is when its ref stream yields them.
C25_NextAccessorIsTried ==
    (epc = "done" /\ exIn.scenario.failure \in RefFailures
                  /\ exIn.scenario.fallback # "none") =>
        \A key \in DOMAIN IntactMap \cup DOMAIN exOut.map :
            TimesA(exOut.map, key) = TimesA(IntactMap, key)

\* C26: in the drawing pass and the cell-image pass a relative target is
\* resolved against the directory of the part that owns the relationship
\* (../drawings/drawing1.xml of xl/worksheets/sheet1.xml is
\* xl/drawings/drawing1.xml, ../media/image1.png of xl/drawings/drawing1.xml
\* is xl/media/image1.png), so an image stored with such targets is found
\* by these passes and returned.
C26_TargetsResolveAgainstOwner ==
    /\ ResolveTarget(SheetRelsPath(1), <<Up, "drawings", "drawing1.xml">>)
          = DrawingPath
    /\ ResolveTarget(RelsForPart(DrawingPath), <<Up, "media", "image1.png">>)
          = MediaPath
    /\ (epc = "done" /\ exIn.file.exists /\ exIn.isXlsxName /\ exIn.n = 1
                     /\ exIn.scenario.sheet = "ok"
                     /\ exIn.scenario.style = "part"
                     /\ exIn.scenario.objModel = "fails") =>
          \E key \in DOMAIN exOut.map : HoldsB(exOut.map, key)

-----------------------------------------------------------------------------
(* Claims about the files and the sheets of one invocation of a tool.      *)

\* C21: during any invocation of any tool the input temporary file holds
\* the bytes of the upload for as long as it exists: extraction reads it,
\* and the workbook save and the rewritten output path are other files.
C21_InputCopyIsNeverWritten ==
    /\ TempIn \in DOMAIN temps => temps[TempIn] = UploadContent(upload)
    /\ pathIn # "" => pathIn # pathOut

\* C21 witness: an image tool extracted images from the input file and saved
\* the changed workbook; the input file is there and still is the upload.
C21_Witness ==
    /\ tpc = "finally"
    /\ tool \in ImageTools
    /\ imageMap # EmptyMap
    /\ calls # <<>>
    /\ pathIn \in DOMAIN temps
    /\ pathOut \in DOMAIN temps
    /\ temps[pathOut].kind = "saved"
    /\ temps[pathOut].tables # upload.tables
    /\ temps[pathIn] = UploadContent(upload)

\* C27: in the image-analysis tools, for every sheet number the invocation
\* accepts, the image map is the one of that sheet, the sheet the table was
\* read from and the results are written to.
C27_ImagesOfTheRequestedSheet ==
    (tool \in ImageTools /\ tpc = "loop" /\ isXlsx) =>
        /\ calls = <<>> => df = upload.tables[sheetNumber]
        /\ ws # 0 => ws = sheetNumber
        /\ imageMap = ExtractImageMap(upload.pkg, LoadExt = ".xlsx", upload.view,
                                      sheetNumber)

-----------------------------------------------------------------------------
(* Claims about the rewritten sheet part and the files of the patcher.     *)

OriginalSheet == ReadPart(original, SheetPath(sheetNo))

\* _update_sheet_xml has returned: sheetXml is the rewritten sheet.
Rewrote ==
    /\ PatchApplies
    /\ Parses(OriginalSheet, "sheet")
    /\ ppc \in {"copy", "copied", "written", "done", "end"}

RowNumbers(rows) == [i \in 1..Len(rows) |-> rows[i].r]

StrictlyAscending(ns) == \A i \in 1..(Len(ns) - 1) : ns[i] < ns[i + 1]

ColumnNumbers(cells) == [j \in 1..Len(cells) |-> LetterToCol(cells[j].ref.col)]

TargetRows == {updates[k].row + 2 : k \in 1..Len(updates)}

\* C22: until os.replace the file at the target path is the original
\* archive; when the call ends without reaching the replace (early return
\* or exception) the target is unchanged; after the replace the target is
\* the complete new archive: every part of the original, the sheet part
\* rewritten.
C22_TargetIntactUntilReplace ==
    /\ ~PatchEnded => archive = original
    /\ (PatchEnded /\ (presult = "raised" \/ ~PatchApplies)) => archive = original
    /\ (PatchEnded /\ presult = "returned" /\ PatchApplies) =>
          /\ archive.exists /\ archive.zip
          /\ Names(archive) = Names(original)
          /\ Len(archive.parts) = Len(original.parts)
          /\ \A name \in Names(original) \ {SheetPath(sheetNo)} :
                ReadPart(archive, name) = ReadPart(original, name)
          /\ ReadPart(archive, SheetPath(sheetNo)) =
                UpdateSheetXml(OriginalSheet, updates)

\* C22 witness: a write to the scratch archive failed part-way; the scratch
\* archive is partial and the target still is the original.
C22_Witness ==
    /\ PatchEnded
    /\ presult = "raised"
    /\ tmpFile.exists
    /\ Len(tmpFile.parts) > 0
    /\ Len(tmpFile.parts) < Len(original.parts) - 1
    /\ archive = original

\* C23: when the rows of sheetData are in strictly ascending order of row
\* number before _update_sheet_xml, they are in strictly ascending order
\* (hence without a repeated number) after any batch, and they are the old
\* rows together with the target rows of the batch.
C23_RowsStayAscending ==
    (Rewrote /\ StrictlyAscending(RowNumbers(OriginalSheet.rows))) =>
        /\ StrictlyAscending(RowNumbers(sheetXml.rows))
        /\ Range(RowNumbers(sheetXml.rows)) =
              Range(RowNumbers(OriginalSheet.rows)) \cup TargetRows

\* C23 witness: a batch that names a later row first and creates a row in
\* front of an existing row with a greater number.
C23_Witness ==
    /\ Rewrote
    /\ StrictlyAscending(RowNumbers(OriginalSheet.rows))
    /\ Len(updates) = 2
    /\ updates[1].row > updates[2].row
    /\ \E i \in 1..(Len(sheetXml.rows) - 1) :
          /\ sheetXml.rows[i].r \notin Range(RowNumbers(OriginalSheet.rows))
          /\ sheetXml.rows[i + 1].r \in Range(RowNumbers(OriginalSheet.rows))

\* The length of the longest row.
Widest(rows) == Max({0} \cup {Len(rows[i].cells) : i \in 1..Len(rows)})

\* The cells with reference ref in the rows numbered r.
CellsAt(rows, r, ref) ==
    {<<i, j>> \in (1..Len(rows)) \X (1..Widest(rows)) :
        /\ rows[i].r = r
        /\ j <= Len(rows[i].cells)
        /\ rows[i].cells[j].ref = ref}

LastUpdateTo(ref) ==
    LET hits == {k \in 1..Len(updates) : UpdateRef(updates[k]) = ref}
    IN  updates[CHOOSE k \in hits : \A l \in hits : l <= k]

AllCells(rows) ==
    {rows[i].cells[j] : <<i, j>> \in
        {<<i, j>> \in (1..Len(rows)) \X (1..Widest(rows)) :
            j <= Len(rows[i].cells)}}

Addressed == {UpdateRef(updates[k]) : k \in 1..Len(updates)}

\* C24: after the batch, for every update (row_index, column_index, value)
\* the cell <letters of column_index + 1><row_index + 2> exists exactly once
\* in the row numbered row_index + 2, has type inlineStr and holds only the
\* text of the last update addressed to it; the cells no update addresses
\* are the cells the sheet had, unchanged.
C24_UpdatedCells ==
    Rewrote =>
        /\ \A k \in 1..Len(updates) :
              LET u == updates[k]
                  ref == UpdateRef(u)
                  at == CellsAt(sheetXml.rows, u.row + 2, ref)
              IN  /\ ref.row = u.row + 2
                  /\ LetterToCol(ref.col) = u.col + 1
                  /\ Cardinality(at) = 1
                  /\ \A ij \in at :
                        LET c == sheetXml.rows[ij[1]].cells[ij[2]]
                        IN  /\ c.t = "inlineStr"
                            /\ c.kids = <<Kid("is", LastUpdateTo(ref).value, NoRid)>>
        /\ {c \in AllCells(sheetXml.rows) : c.ref \notin Addressed}
              = {c \in AllCells(OriginalSheet.rows) : c.ref \notin Addressed}

\* C24 witness: two updates of one cell that held a value, next to a cell
\* no update addresses.
C24_Witness ==
    /\ Rewrote
    /\ Len(updates) = 2
    /\ UpdateRef(updates[1]) = UpdateRef(updates[2])
    /\ \E c \in AllCells(OriginalSheet.rows) : c.ref = UpdateRef(updates[1])
    /\ \E c \in AllCells(sheetXml.rows) : c.ref \notin Addressed

\* C28: when the cells of every row are in ascending column order before
\* _update_sheet_xml, they are in ascending column order after any batch.
C28_CellsStayAscending ==
    (Rewrote /\ \A i \in 1..Len(OriginalSheet.rows) :
                    StrictlyAscending(ColumnNumbers(OriginalSheet.rows[i].cells))) =>
        \A i \in 1..Len(sheetXml.rows) :
            StrictlyAscending(ColumnNumbers(sheetXml.rows[i].cells))

\* C29: when apply_sheet_updates_preserve_images ends, on any path, the
\* scratch archive it created does not exist under its own name.
C29_NoScratchFileRemains == PatchEnded => ~tmpFile.exists

-----------------------------------------------------------------------------
(* Claims about the row loop of the image-analysis tools.                  *)

\* The loop has been entered: it runs, or it has ended in an output file.
InLoop == tool \in ImageTools /\ (tpc = "loop" \/ Blobs # <<>>)

\* The target rows the loop has passed.
Visited == {i \in FirstTargetRow..LastTargetRow : i < curRow}

\* The table the results go to: the worksheet if there is one, else the
\* DataFrame.
CurrentTable == IF ws # 0 THEN wb.sheets[ws] ELSE df

\* Row i of the file as it was loaded has, under some input clause, an
\* embedded image or a non-empty cell.
HadContent(i) ==
    \E k \in 1..Len(InInfos) :
        /\ InInfos[k].start_row <= i
        /\ i <= InInfos[k].end_row
        /\ \/ <<i, InInfos[k].col_idx>> \in DOMAIN imageMap
           \/ TableCell(LoadedTable, i, InInfos[k].col_idx) # ""

ResultAt(i) == IF i \in failed THEN LLMError ELSE ModelAnswer

====
